---- MODULE Spec2Model ----
(***************************************************************************)
(* VibeDeploy: the reaction-to-deployment bridge.                          *)
(*                                                                         *)
(* Two loops run concurrently: the primary loop of main() consumes Slack   *)
(* reaction events and turns a qualifying one into a Poppit command, the   *)
(* listener goroutine consumes Poppit command outputs and reflects a       *)
(* finished deployment as reactions.  Each call that leaves the process    *)
(* (Slack history fetch, Redis RPUSH) is one step of the loop that makes   *)
(* it, so that the other loop can interleave exactly where it can in the   *)
(* program.                                                                *)
(***************************************************************************)
EXTENDS Integers, Sequences, FiniteSets, TLC

VARIABLES
    mainPc,          \* position of main(): start, select, fetch, gear, command, exited, fatal
    lisPc,           \* position of listenForCommandOutput: idle, subscribe, select, removeGear,
                     \* addRocket, exited, killed
    cancelled,       \* ctx.Done() is closed
    allowedRepos,    \* result of loadAllowedRepos: NilMap or a loaded set
    item,            \* event.Event.Item of the event that passed the Event Filter last
                     \* (Unset: none); no other field of the event is read after the filter
    metadata,        \* result of getMessageMetadata for that event
    evOut,           \* publish calls made while processing that event, in order
    mainLog,         \* log calls of the primary loop for the payload received last
    output,          \* the CommandOutput that passed the listener's filter last (Unset: none)
    outOut,          \* publish calls made while processing that output, in order
    lisLog,          \* log calls of the listener for the payload received last
    poppitCommands,  \* Redis list config.RedisListName (wire objects)
    slackReactions,  \* Redis list config.RedisReactionList (wire objects)
    nEvents,         \* payloads received on the reaction channel
    nOutputs,        \* payloads received on the command output channel
    probe            \* state outside the running service that a specification follows:
                     \* the file at the configured allowlist path (SpecConfig), the
                     \* command on its way through the wire form (SpecCodec); Unset
                     \* where the specification does not follow any

vars == <<mainPc, lisPc, cancelled, allowedRepos, item, metadata, evOut, mainLog,
          output, outOut, lisLog, poppitCommands, slackReactions, nEvents, nOutputs,
          probe>>

(***************************************************************************)
(* Bounds of the model.                                                    *)
(***************************************************************************)
MaxEvents == 1
MaxOutputs == 1
MaxBranchLen == 2    \* runes of a branch name in SpecCodec
MaxStream == 2       \* reaction events of one run of SpecStream
MaxAuths == 2        \* authorization records of a payload in SpecSuppression
MaxLoop == 2         \* reactions of the user in one run of SpecLoop

(***************************************************************************)
(* Program constants.                                                      *)
(***************************************************************************)
RocketReaction == "rocket"
GearReaction == "gear"
VibeDeployType == "vibe-deploy"
DeploymentCommand == "docker compose up -d"
BaseDir == "/app/repos"
MessageItemType == "message"

(***************************************************************************)
(* JSON helpers.  A JSON object is a function from its keys to values; a   *)
(* key that is absent is absent from the DOMAIN.  A scalar of a Slack      *)
(* metadata payload (map[string]interface{}) carries its JSON type.        *)
(***************************************************************************)
Has(obj, key) == key \in DOMAIN obj
Get(obj, key, default) == IF Has(obj, key) THEN obj[key] ELSE default

JString(s) == [t |-> "string", s |-> s]
JNumber(s) == [t |-> "number", s |-> s]

Nil == [nil |-> TRUE]

(***************************************************************************)
(* Inputs: the values the outside world can hand to the program.           *)
(***************************************************************************)
Channels == {"C1"}
Timestamps == <<"100.1", "200.2">>
TsSet == {Timestamps[i] : i \in 1..Len(Timestamps)}
TsIndex(ts) == CHOOSE i \in 1..Len(Timestamps) : Timestamps[i] = ts
Users == {"U1", "B1"}
Reactions == {"rocket", "Rocket"}
ItemTypes == {"message", "file"}
EventTypes == {"reaction_added", "reaction_removed"}
Repos == {"org/app", "org/other"}
Branches == {"feat/x"}

Malformed == [malformed |-> TRUE]

AuthorizationLists ==
    { <<[user_id |-> "U1", is_bot |-> FALSE], [user_id |-> "B1", is_bot |-> TRUE]>> }

WireItems == [type : ItemTypes, channel : Channels, ts : TsSet]

\* {"event":{...},"authorizations":[...]} with "authorizations" optional
WireEvents ==
    [type : EventTypes, user : Users, reaction : Reactions, item : WireItems]

ReactionPayloads ==
    {Malformed}
    \cup {[event |-> e] : e \in WireEvents}
    \cup [event : WireEvents, authorizations : AuthorizationLists]

\* {"metadata":{...},"type":..,"command":..,"output":..} with "metadata" optional
WireCommandMetadata ==
    {<<>>} \cup [channel : Channels, ts : TsSet]

OutputTypes == {"vibe-deploy", "other-type"}
OutputCommands == {"docker compose up -d", "git checkout main"}

OutputPayloads ==
    {Malformed}
    \cup [type : OutputTypes, command : OutputCommands, output : {"ok"}]
    \cup [metadata : WireCommandMetadata, type : OutputTypes,
          command : OutputCommands, output : {"ok"}]

\* message.Metadata.EventPayload of the message Slack returns
EventPayloads ==
    {<<>>}
    \cup [repository : {JString(r) : r \in Repos \cup {""}} \cup {JNumber("42")},
          branch : {JString(b) : b \in Branches \cup {""}}]
    \cup [repository : {JString(r) : r \in Repos}]
    \cup [other : {JString("x")}]

SlackMessages == [Ts : TsSet, EventPayload : EventPayloads]

\* conversations.history with Latest=timestamp, Inclusive, Limit=1: a failure,
\* no message, or the one message at or before the timestamp
SlackResponses(channel, timestamp) ==
    {[err |-> TRUE]}
    \cup {[err |-> FALSE, Messages |-> <<>>]}
    \cup {[err |-> FALSE, Messages |-> <<m>>] :
            m \in {x \in SlackMessages : TsIndex(x.Ts) <= TsIndex(timestamp)}}

(***************************************************************************)
(* Log calls: the level and the message of logDebug/logInfo/logWarn/       *)
(* logError.  mainLog and lisLog hold the calls made for one payload.      *)
(***************************************************************************)
Log(level, msg) == [level |-> level, msg |-> msg]

(***************************************************************************)
(* Decoding and encoding (encoding/json with the struct tags of the        *)
(* program).  A key missing from the payload leaves the zero value.        *)
(***************************************************************************)
Unset == [unset |-> TRUE]

UnmarshalAuthorizations(list) ==
    [i \in 1..Len(list) |->
        [UserID |-> Get(list[i], "user_id", ""), IsBot |-> Get(list[i], "is_bot", FALSE)]]

UnmarshalReactionEvent(payload) ==
    IF payload = Malformed
    THEN [err |-> TRUE]
    ELSE LET e == Get(payload, "event", <<>>)
             it == Get(e, "item", <<>>)
         IN  [err |-> FALSE,
              Event |-> [Type |-> Get(e, "type", ""),
                         User |-> Get(e, "user", ""),
                         Reaction |-> Get(e, "reaction", ""),
                         Item |-> [Type |-> Get(it, "type", ""),
                                   Channel |-> Get(it, "channel", ""),
                                   Ts |-> Get(it, "ts", "")]],
              Authorizations |-> UnmarshalAuthorizations(Get(payload, "authorizations", <<>>))]

UnmarshalCommandMetadata(m) ==
    [Channel |-> Get(m, "channel", ""), Ts |-> Get(m, "ts", "")]

UnmarshalCommandOutput(payload) ==
    IF payload = Malformed
    THEN [err |-> TRUE]
    ELSE [err |-> FALSE,
          Metadata |-> IF Has(payload, "metadata")
                       THEN UnmarshalCommandMetadata(payload["metadata"])
                       ELSE Nil,
          Type |-> Get(payload, "type", ""),
          Command |-> Get(payload, "command", ""),
          Output |-> Get(payload, "output", "")]

\* json.Unmarshal of the re-marshalled EventPayload into PRMetadata: a string
\* field fed by a JSON value that is not a string is an error
UnmarshalPRMetadata(payload) ==
    IF \E k \in {"repository", "branch"} : Has(payload, k) /\ payload[k].t # "string"
    THEN [err |-> TRUE]
    ELSE [err |-> FALSE,
          Repository |-> Get(payload, "repository", JString("")).s,
          Branch |-> Get(payload, "branch", JString("")).s]

\* SlackReaction: `json:"remove,omitempty"` drops a false Remove
MarshalSlackReaction_NoOmitEmpty(r) ==
    [reaction |-> r.Reaction, channel |-> r.Channel, ts |-> r.Ts, remove |-> r.Remove]

MarshalSlackReaction(r) ==
    IF r.Remove
    THEN [reaction |-> r.Reaction, channel |-> r.Channel, ts |-> r.Ts, remove |-> TRUE]
    ELSE [reaction |-> r.Reaction, channel |-> r.Channel, ts |-> r.Ts]

\* PoppitCommand: `json:"metadata,omitempty"` drops a nil Metadata
MarshalPoppitCommand(cmd) ==
    LET base == [repo |-> cmd.Repo, branch |-> cmd.Branch, type |-> cmd.Type,
                 dir |-> cmd.Dir, commands |-> cmd.Commands]
    IN  IF cmd.Metadata = Nil
        THEN base
        ELSE [repo |-> cmd.Repo, branch |-> cmd.Branch, type |-> cmd.Type,
              dir |-> cmd.Dir, commands |-> cmd.Commands,
              metadata |-> [channel |-> cmd.Metadata.Channel, ts |-> cmd.Metadata.Ts]]

(***************************************************************************)
(* The text of a JSON array of strings, as json.Marshal writes a []string  *)
(* field and json.Unmarshal reads it back.  A string is written between    *)
(* quotes, with '"' and '\' escaped by a backslash and '<', '>', '&'       *)
(* written as six-character unicode escapes; the elements are separated    *)
(* by ','.                                                                 *)
(***************************************************************************)
EscapeRune(c) ==
    IF c = "\"" THEN "\\\""
    ELSE IF c = "\\" THEN "\\\\"
    ELSE IF c = "<" THEN "\\u003c"
    ELSE IF c = ">" THEN "\\u003e"
    ELSE IF c = "&" THEN "\\u0026"
    ELSE c

RECURSIVE EscapeString(_)
EscapeString(s) ==
    IF Len(s) = 0 THEN "" ELSE EscapeRune(SubSeq(s, 1, 1)) \o EscapeString(Tail(s))

MarshalString_Raw(s) == "\"" \o s \o "\""

MarshalString(s) == "\"" \o EscapeString(s) \o "\""

RECURSIVE JoinStrings(_)
JoinStrings(list) ==
    IF Len(list) = 0 THEN ""
    ELSE IF Len(list) = 1 THEN MarshalString(list[1])
    ELSE MarshalString(list[1]) \o "," \o JoinStrings(Tail(list))

MarshalStringArray(list) == "[" \o JoinStrings(list) \o "]"

UnescapeHex(h) ==
    IF h = "003c" THEN "<"
    ELSE IF h = "003e" THEN ">"
    ELSE IF h = "0026" THEN "&"
    ELSE "?"

\* the string literal whose opening quote is before position i: its value and the
\* position after its closing quote
RECURSIVE ScanString(_, _, _)
ScanString(text, i, acc) ==
    IF i > Len(text) THEN [err |-> TRUE]
    ELSE LET c == SubSeq(text, i, i)
         IN  IF c = "\"" THEN [err |-> FALSE, value |-> acc, next |-> i + 1]
             ELSE IF c # "\\" THEN ScanString(text, i + 1, acc \o c)
             ELSE IF SubSeq(text, i + 1, i + 1) = "u"
             THEN ScanString(text, i + 6, acc \o UnescapeHex(SubSeq(text, i + 2, i + 5)))
             ELSE ScanString(text, i + 2, acc \o SubSeq(text, i + 1, i + 1))

\* the elements of the array from position i on, appended to acc in the order read
RECURSIVE ScanArray(_, _, _)
ScanArray(text, i, acc) ==
    IF i > Len(text) THEN Malformed
    ELSE LET c == SubSeq(text, i, i)
         IN  IF c = "]" THEN (IF i = Len(text) THEN acc ELSE Malformed)
             ELSE IF c = "," THEN ScanArray(text, i + 1, acc)
             ELSE IF c # "\"" THEN Malformed
             ELSE LET lit == ScanString(text, i + 1, "")
                  IN  IF lit.err THEN Malformed
                      ELSE ScanArray(text, lit.next, Append(acc, lit.value))

UnmarshalStringArray(text) ==
    IF Len(text) = 0 \/ SubSeq(text, 1, 1) # "[" THEN Malformed
    ELSE ScanArray(text, 2, <<>>)


(***************************************************************************)
(* The Event Filter of processReactionEvent.                               *)
(***************************************************************************)
IsRocketReaction_EqualFold(ev) == ev.Event.Reaction \in {"rocket", "Rocket", "ROCKET"}

IsRocketReaction(ev) == ev.Event.Reaction = RocketReaction

IsMessageItem_Any(ev) == TRUE

IsMessageItem(ev) == ev.Event.Item.Type = MessageItemType

IsBotReaction_FirstOnly(ev) ==
    /\ Len(ev.Authorizations) > 0
    /\ ev.Authorizations[1].IsBot
    /\ ev.Authorizations[1].UserID = ev.Event.User

IsBotReaction_Never(ev) == FALSE

IsBotReaction_SeparateRecords(ev) ==
    /\ \E i \in 1..Len(ev.Authorizations) : ev.Authorizations[i].IsBot
    /\ \E j \in 1..Len(ev.Authorizations) : ev.Authorizations[j].UserID = ev.Event.User

IsBotReaction(ev) ==
    \E i \in 1..Len(ev.Authorizations) :
        ev.Authorizations[i].IsBot /\ ev.Authorizations[i].UserID = ev.Event.User

(***************************************************************************)
(* The Metadata Resolver.                                                  *)
(***************************************************************************)
getMessageMetadata_EmptyHistoryIsNoMetadata(resp) ==
    IF resp.err
    THEN [err |-> TRUE, meta |-> Nil]
    ELSE IF Len(resp.Messages) = 0
    THEN [err |-> FALSE, meta |-> Nil]
    ELSE LET message == resp.Messages[1]
             parsed == UnmarshalPRMetadata(message.EventPayload)
         IN  IF DOMAIN message.EventPayload = {}
             THEN [err |-> FALSE, meta |-> Nil]
             ELSE IF parsed.err
             THEN [err |-> TRUE, meta |-> Nil]
             ELSE IF parsed.Repository = "" \/ parsed.Branch = ""
             THEN [err |-> FALSE, meta |-> Nil]
             ELSE [err |-> FALSE,
                   meta |-> [Repository |-> parsed.Repository, Branch |-> parsed.Branch]]

getMessageMetadata_RepositoryOnly(resp) ==
    IF resp.err
    THEN [err |-> TRUE, meta |-> Nil]
    ELSE IF Len(resp.Messages) = 0
    THEN [err |-> TRUE, meta |-> Nil]
    ELSE LET message == resp.Messages[1]
             parsed == UnmarshalPRMetadata(message.EventPayload)
         IN  IF DOMAIN message.EventPayload = {}
             THEN [err |-> FALSE, meta |-> Nil]
             ELSE IF parsed.err
             THEN [err |-> TRUE, meta |-> Nil]
             ELSE IF parsed.Repository = ""
             THEN [err |-> FALSE, meta |-> Nil]
             ELSE [err |-> FALSE,
                   meta |-> [Repository |-> parsed.Repository, Branch |-> parsed.Branch]]

getMessageMetadata(resp) ==
    IF resp.err
    THEN [err |-> TRUE, meta |-> Nil]
    ELSE IF Len(resp.Messages) = 0
    THEN [err |-> TRUE, meta |-> Nil]
    ELSE LET message == resp.Messages[1]
             parsed == UnmarshalPRMetadata(message.EventPayload)
         IN  IF DOMAIN message.EventPayload = {}
             THEN [err |-> FALSE, meta |-> Nil]
             ELSE IF parsed.err
             THEN [err |-> TRUE, meta |-> Nil]
             ELSE IF parsed.Repository = "" \/ parsed.Branch = ""
             THEN [err |-> FALSE, meta |-> Nil]
             ELSE [err |-> FALSE,
                   meta |-> [Repository |-> parsed.Repository, Branch |-> parsed.Branch]]

(***************************************************************************)
(* The Repository Allowlist.                                               *)
(***************************************************************************)
NilMap == [loaded |-> FALSE]
LoadedMap(set) == [loaded |-> TRUE, repos |-> set]

ConfigPaths == {"", "allowed_repos.yaml"}
\* what is at the configured path: nothing, an unreadable file, a file that is
\* not YAML of the expected shape, or a list of repositories
ConfigFiles ==
    {[kind |-> "absent"], [kind |-> "unreadable"], [kind |-> "malformed"]}
    \cup {[kind |-> "yaml", allowed_repos |-> l] : l \in {<<>>, <<"org/app">>}}

loadAllowedRepos_AbsentIsEmpty(configPath, file) ==
    IF configPath = ""
    THEN [err |-> FALSE, map |-> NilMap,
          log |-> Log("INFO", "No allowed repos config specified, allowing all repositories")]
    ELSE IF file.kind = "absent"
    THEN [err |-> FALSE, map |-> LoadedMap({}),
          log |-> Log("INFO", "Loaded allowed repositories from config")]
    ELSE IF file.kind = "unreadable"
    THEN [err |-> TRUE, map |-> NilMap, log |-> Log("FATAL", "failed to read allowed repos config")]
    ELSE IF file.kind = "malformed"
    THEN [err |-> TRUE, map |-> NilMap, log |-> Log("FATAL", "failed to parse allowed repos config")]
    ELSE [err |-> FALSE,
          map |-> LoadedMap({file.allowed_repos[i] : i \in 1..Len(file.allowed_repos)}),
          log |-> Log("INFO", "Loaded allowed repositories from config")]

loadAllowedRepos_MalformedIsAllowAll(configPath, file) ==
    IF configPath = ""
    THEN [err |-> FALSE, map |-> NilMap,
          log |-> Log("INFO", "No allowed repos config specified, allowing all repositories")]
    ELSE IF file.kind = "absent"
    THEN [err |-> FALSE, map |-> NilMap,
          log |-> Log("INFO", "Allowed repos config file not found, allowing all repositories")]
    ELSE IF file.kind = "unreadable"
    THEN [err |-> TRUE, map |-> NilMap, log |-> Log("FATAL", "failed to read allowed repos config")]
    ELSE IF file.kind = "malformed"
    THEN [err |-> FALSE, map |-> NilMap,
          log |-> Log("INFO", "Allowed repos config file not found, allowing all repositories")]
    ELSE [err |-> FALSE,
          map |-> LoadedMap({file.allowed_repos[i] : i \in 1..Len(file.allowed_repos)}),
          log |-> Log("INFO", "Loaded allowed repositories from config")]

\* the map and the error loadAllowedRepos returns, with the line it logs (for an
\* error: the line main logs before it exits)
loadAllowedRepos(configPath, file) ==
    IF configPath = ""
    THEN [err |-> FALSE, map |-> NilMap,
          log |-> Log("INFO", "No allowed repos config specified, allowing all repositories")]
    ELSE IF file.kind = "absent"
    THEN [err |-> FALSE, map |-> NilMap,
          log |-> Log("INFO", "Allowed repos config file not found, allowing all repositories")]
    ELSE IF file.kind = "unreadable"
    THEN [err |-> TRUE, map |-> NilMap, log |-> Log("FATAL", "failed to read allowed repos config")]
    ELSE IF file.kind = "malformed"
    THEN [err |-> TRUE, map |-> NilMap, log |-> Log("FATAL", "failed to parse allowed repos config")]
    ELSE [err |-> FALSE,
          map |-> LoadedMap({file.allowed_repos[i] : i \in 1..Len(file.allowed_repos)}),
          log |-> Log("INFO", "Loaded allowed repositories from config")]

\* a prefix of the repository on the list would do
isRepoAllowed_PrefixMatch(repo, allowed) ==
    IF allowed = NilMap
    THEN TRUE
    ELSE \E r \in allowed.repos : Len(r) <= Len(repo) /\ SubSeq(repo, 1, Len(r)) = r

isRepoAllowed_AllowAll(repo, allowed) == TRUE

isRepoAllowed(repo, allowed) ==
    IF allowed = NilMap
    THEN TRUE
    ELSE repo \in allowed.repos

(***************************************************************************)
(* The Command Synthesizer.                                                *)
(***************************************************************************)
createPoppitCommand_BuildAfterUp(meta, channel, timestamp) ==
    [Repo |-> meta.Repository,
     Branch |-> meta.Branch,
     Type |-> VibeDeployType,
     Dir |-> BaseDir \o "/" \o meta.Repository,
     Commands |-> <<"git fetch origin",
                    "git checkout " \o meta.Branch,
                    "git pull",
                    "docker compose down",
                    "docker compose build",
                    DeploymentCommand,
                    "git checkout main">>,
     Metadata |-> [Channel |-> channel, Ts |-> timestamp]]

createPoppitCommand_NoCorrelation(meta, channel, timestamp) ==
    [Repo |-> meta.Repository,
     Branch |-> meta.Branch,
     Type |-> VibeDeployType,
     Dir |-> BaseDir \o "/" \o meta.Repository,
     Commands |-> <<"git fetch origin",
                    "git checkout " \o meta.Branch,
                    "git pull",
                    "docker compose build",
                    "docker compose down",
                    DeploymentCommand,
                    "git checkout main">>,
     Metadata |-> Nil]

createPoppitCommand_UpInForeground(meta, channel, timestamp) ==
    [Repo |-> meta.Repository,
     Branch |-> meta.Branch,
     Type |-> VibeDeployType,
     Dir |-> BaseDir \o "/" \o meta.Repository,
     Commands |-> <<"git fetch origin",
                    "git checkout " \o meta.Branch,
                    "git pull",
                    "docker compose build",
                    "docker compose down",
                    "docker compose up",
                    "git checkout main">>,
     Metadata |-> [Channel |-> channel, Ts |-> timestamp]]

createPoppitCommand(meta, channel, timestamp) ==
    [Repo |-> meta.Repository,
     Branch |-> meta.Branch,
     Type |-> VibeDeployType,
     Dir |-> BaseDir \o "/" \o meta.Repository,
     Commands |-> <<"git fetch origin",
                    "git checkout " \o meta.Branch,
                    "git pull",
                    "docker compose build",
                    "docker compose down",
                    DeploymentCommand,
                    "git checkout main">>,
     Metadata |-> [Channel |-> channel, Ts |-> timestamp]]

(***************************************************************************)
(* The Status Reflector: the SlackReaction each call site builds.          *)
(***************************************************************************)
SlackReaction(channel, timestamp, reaction, remove) ==
    [Reaction |-> reaction, Channel |-> channel, Ts |-> timestamp, Remove |-> remove]

\* a publish call: the sink, the value handed to it, and whether RPUSH succeeded
Call(sink, req, ok) == [sink |-> sink, req |-> req, ok |-> ok]

(***************************************************************************)
(* Initial state: the process has been started, main() has not run yet.    *)
(***************************************************************************)
InitProcess ==
    /\ mainPc = "start"
    /\ lisPc = "idle"
    /\ cancelled = FALSE
    /\ allowedRepos = NilMap
    /\ item = Unset
    /\ metadata = Unset
    /\ evOut = <<>>
    /\ mainLog = <<>>
    /\ output = Unset
    /\ outOut = <<>>
    /\ lisLog = <<>>
    /\ poppitCommands = <<>>
    /\ slackReactions = <<>>
    /\ nEvents = 0
    /\ nOutputs = 0

Init ==
    /\ InitProcess
    /\ probe = Unset

(***************************************************************************)
(* main() up to the start of the primary loop: the credential check, the   *)
(* allowlist load, the Redis ping, the subscription and the start of the   *)
(* listener goroutine.                                                     *)
(***************************************************************************)
Startup(slackToken, configPath, file, pingOk) ==
    LET loaded == loadAllowedRepos(configPath, file)
        fatal == slackToken = "" \/ loaded.err \/ ~pingOk
    IN  /\ mainPc = "start"
        /\ mainPc' = IF fatal THEN "fatal" ELSE "select"
        /\ lisPc' = IF fatal THEN lisPc ELSE "subscribe"
        /\ allowedRepos' = IF fatal THEN allowedRepos ELSE loaded.map
        /\ mainLog' =
              IF slackToken = ""
              THEN <<Log("FATAL", "SLACK_BOT_TOKEN environment variable is required")>>
              ELSE IF loaded.err
              THEN <<Log("FATAL", "Failed to load allowed repos configuration"), loaded.log>>
              ELSE IF ~pingOk
              THEN <<loaded.log, Log("FATAL", "Failed to connect to Redis")>>
              ELSE <<loaded.log, Log("INFO", "Connected to Redis"),
                     Log("INFO", "Subscribed to Redis channel")>>
        /\ UNCHANGED <<cancelled, item, metadata, evOut, output, outOut, lisLog,
                       poppitCommands, slackReactions, nEvents, nOutputs, probe>>

\* the signal goroutine: SIGINT/SIGTERM cancels the shared context
Shutdown ==
    /\ mainPc \notin {"start", "fatal"}
    /\ ~cancelled
    /\ cancelled' = TRUE
    /\ UNCHANGED <<mainPc, lisPc, allowedRepos, item, metadata, evOut, mainLog, output,
                   outOut, lisLog, poppitCommands, slackReactions, nEvents, nOutputs, probe>>

(***************************************************************************)
(* The primary loop and processReactionEvent.  The locals of a call that   *)
(* returned at the Event Filter are gone: item stays Unset.                *)
(***************************************************************************)
\* case <-ctx.Done(): main returns, and the process ends with it; a listener
\* goroutine that has not returned by then is stopped wherever it is
MainExit ==
    /\ mainPc = "select"
    /\ cancelled
    /\ mainPc' = "exited"
    /\ lisPc' = IF lisPc = "exited" THEN "exited" ELSE "killed"
    /\ UNCHANGED <<cancelled, allowedRepos, item, metadata, evOut, mainLog, output,
                   outOut, lisLog, poppitCommands, slackReactions, nEvents, nOutputs, probe>>

\* the decode check and the Event Filter of processReactionEvent, as the log call
\* they end in
EventVerdict(ev) ==
    IF ev.err THEN Log("ERROR", "Error parsing reaction event")
    ELSE IF ~IsRocketReaction(ev) THEN Log("DEBUG", "Ignoring reaction")
    ELSE IF ~IsMessageItem(ev) THEN Log("DEBUG", "Ignoring item type")
    ELSE IF IsBotReaction(ev) THEN Log("INFO", "Ignoring rocket reaction from bot user")
    ELSE Log("INFO", "Processing rocket reaction")

\* case msg := <-ch: decode the payload and run the Event Filter
ReceiveReactionEvent(payload) ==
    LET ev == UnmarshalReactionEvent(payload)
        received == <<Log("DEBUG", "Received message from channel")>>
        verdict == EventVerdict(ev)
        accepted == verdict.msg = "Processing rocket reaction"
    IN  /\ mainPc = "select"
        /\ nEvents' = nEvents + 1
        /\ item' = IF accepted THEN ev.Event.Item ELSE Unset
        /\ metadata' = Unset
        /\ evOut' = <<>>
        /\ mainLog' = Append(received, verdict)
        /\ mainPc' = IF accepted THEN "fetch" ELSE "select"
        /\ UNCHANGED <<lisPc, cancelled, allowedRepos, output, outOut, lisLog,
                       poppitCommands, slackReactions, nOutputs, probe>>

FetchMessageMetadata_SkipGear(resp) ==
    LET result == getMessageMetadata(resp)
        verdict ==
            IF result.err THEN <<Log("ERROR", "Error getting message metadata")>>
            ELSE IF result.meta = Nil THEN <<Log("DEBUG", "No PR metadata found in message")>>
            ELSE IF ~isRepoAllowed(result.meta.Repository, allowedRepos)
            THEN <<Log("INFO", "Found PR metadata"),
                   Log("INFO", "Repository is not in the allowed list")>>
            ELSE <<Log("INFO", "Found PR metadata")>>
    IN  /\ mainPc = "fetch"
        /\ metadata' = result
        /\ mainLog' = mainLog \o verdict
        /\ mainPc' = IF verdict = <<Log("INFO", "Found PR metadata")>> THEN "command"
                     ELSE "select"
        /\ UNCHANGED <<lisPc, cancelled, allowedRepos, item, evOut, output, outOut, lisLog,
                       poppitCommands, slackReactions, nEvents, nOutputs, probe>>

FetchMessageMetadata_RetryOnError(resp) ==
    LET result == getMessageMetadata(resp)
        verdict ==
            IF result.err THEN <<Log("ERROR", "Error getting message metadata")>>
            ELSE IF result.meta = Nil THEN <<Log("DEBUG", "No PR metadata found in message")>>
            ELSE IF ~isRepoAllowed(result.meta.Repository, allowedRepos)
            THEN <<Log("INFO", "Found PR metadata"),
                   Log("INFO", "Repository is not in the allowed list")>>
            ELSE <<Log("INFO", "Found PR metadata")>>
    IN  /\ mainPc = "fetch"
        /\ metadata' = result
        /\ mainLog' = mainLog \o verdict
        /\ mainPc' = IF verdict = <<Log("INFO", "Found PR metadata")>> THEN "gear"
                     ELSE IF result.err THEN "fetch"
                     ELSE "select"
        /\ UNCHANGED <<lisPc, cancelled, allowedRepos, item, evOut, output, outOut, lisLog,
                       poppitCommands, slackReactions, nEvents, nOutputs, probe>>

\* getMessageMetadata returns, then the nil check and the allowlist gate
FetchMessageMetadata(resp) ==
    LET result == getMessageMetadata(resp)
        verdict ==
            IF result.err THEN <<Log("ERROR", "Error getting message metadata")>>
            ELSE IF result.meta = Nil THEN <<Log("DEBUG", "No PR metadata found in message")>>
            ELSE IF ~isRepoAllowed(result.meta.Repository, allowedRepos)
            THEN <<Log("INFO", "Found PR metadata"),
                   Log("INFO", "Repository is not in the allowed list")>>
            ELSE <<Log("INFO", "Found PR metadata")>>
    IN  /\ mainPc = "fetch"
        /\ metadata' = result
        /\ mainLog' = mainLog \o verdict
        /\ mainPc' = IF verdict = <<Log("INFO", "Found PR metadata")>> THEN "gear" ELSE "select"
        /\ UNCHANGED <<lisPc, cancelled, allowedRepos, item, evOut, output, outOut, lisLog,
                       poppitCommands, slackReactions, nEvents, nOutputs, probe>>

\* the in-progress marker of an accepted event
StartReaction_Rocket(it) ==
    SlackReaction(it.Channel, it.Ts, RocketReaction, FALSE)

StartReaction_Remove(it) ==
    SlackReaction(it.Channel, it.Ts, GearReaction, TRUE)

StartReaction(it) ==
    SlackReaction(it.Channel, it.Ts, GearReaction, FALSE)

PublishGear_AbortOnError(ok) ==
    LET r == StartReaction(item)
    IN  /\ mainPc = "gear"
        /\ evOut' = Append(evOut, Call("reactions", r, ok))
        /\ slackReactions' = IF ok THEN Append(slackReactions, MarshalSlackReaction(r))
                             ELSE slackReactions
        /\ mainLog' = Append(mainLog, IF ok THEN Log("INFO", "Published gear reaction")
                                      ELSE Log("ERROR", "Error publishing gear reaction"))
        /\ mainPc' = IF ok THEN "command" ELSE "select"
        /\ UNCHANGED <<lisPc, cancelled, allowedRepos, item, metadata, output, outOut, lisLog,
                       poppitCommands, nEvents, nOutputs, probe>>

\* publishSlackReaction(..., GearReaction, false, ...): an error is only logged
PublishGear(ok) ==
    LET r == StartReaction(item)
    IN  /\ mainPc = "gear"
        /\ evOut' = Append(evOut, Call("reactions", r, ok))
        /\ slackReactions' = IF ok THEN Append(slackReactions, MarshalSlackReaction(r))
                             ELSE slackReactions
        /\ mainLog' = Append(mainLog, IF ok THEN Log("INFO", "Published gear reaction")
                                      ELSE Log("ERROR", "Error publishing gear reaction"))
        /\ mainPc' = "command"
        /\ UNCHANGED <<lisPc, cancelled, allowedRepos, item, metadata, output, outOut, lisLog,
                       poppitCommands, nEvents, nOutputs, probe>>

PublishCommand_Prepend(ok) ==
    LET cmd == createPoppitCommand(metadata.meta, item.Channel, item.Ts)
    IN  /\ mainPc = "command"
        /\ evOut' = Append(evOut, Call("commands", cmd, ok))
        /\ poppitCommands' = IF ok THEN <<MarshalPoppitCommand(cmd)>> \o poppitCommands
                             ELSE poppitCommands
        /\ mainLog' = Append(mainLog, IF ok THEN Log("INFO", "Successfully published Poppit command")
                                      ELSE Log("ERROR", "Error publishing Poppit command"))
        /\ mainPc' = "select"
        /\ UNCHANGED <<lisPc, cancelled, allowedRepos, item, metadata, output, outOut, lisLog,
                       slackReactions, nEvents, nOutputs, probe>>

PublishCommand_SkipQueuedRepo(ok) ==
    LET cmd == createPoppitCommand(metadata.meta, item.Channel, item.Ts)
        queued == \E i \in 1..Len(poppitCommands) :
                      /\ poppitCommands[i].repo = cmd.Repo
                      /\ poppitCommands[i].branch = cmd.Branch
    IN  /\ mainPc = "command"
        /\ evOut' = Append(evOut, Call("commands", cmd, ok))
        /\ poppitCommands' = IF ok /\ ~queued
                             THEN Append(poppitCommands, MarshalPoppitCommand(cmd))
                             ELSE poppitCommands
        /\ mainLog' = Append(mainLog, IF ok THEN Log("INFO", "Successfully published Poppit command")
                                      ELSE Log("ERROR", "Error publishing Poppit command"))
        /\ mainPc' = "select"
        /\ UNCHANGED <<lisPc, cancelled, allowedRepos, item, metadata, output, outOut, lisLog,
                       slackReactions, nEvents, nOutputs, probe>>

PublishCommand_ClearsGear(ok) ==
    LET cmd == createPoppitCommand(metadata.meta, item.Channel, item.Ts)
        clear == SlackReaction(item.Channel, item.Ts, GearReaction, TRUE)
    IN  /\ mainPc = "command"
        /\ evOut' = Append(evOut, Call("commands", cmd, ok))
        /\ poppitCommands' = IF ok THEN Append(poppitCommands, MarshalPoppitCommand(cmd))
                             ELSE poppitCommands
        /\ slackReactions' = IF ok THEN Append(slackReactions, MarshalSlackReaction(clear))
                             ELSE slackReactions
        /\ mainLog' = Append(mainLog, IF ok THEN Log("INFO", "Successfully published Poppit command")
                                      ELSE Log("ERROR", "Error publishing Poppit command"))
        /\ mainPc' = "select"
        /\ UNCHANGED <<lisPc, cancelled, allowedRepos, item, metadata, output, outOut, lisLog,
                       nEvents, nOutputs, probe>>

PublishCommand_RollbackGear(ok) ==
    LET cmd == createPoppitCommand(metadata.meta, item.Channel, item.Ts)
        undo == SlackReaction(item.Channel, item.Ts, GearReaction, TRUE)
    IN  /\ mainPc = "command"
        /\ evOut' = IF ok THEN Append(evOut, Call("commands", cmd, ok))
                    ELSE evOut \o <<Call("commands", cmd, ok), Call("reactions", undo, TRUE)>>
        /\ poppitCommands' = IF ok THEN Append(poppitCommands, MarshalPoppitCommand(cmd))
                             ELSE poppitCommands
        /\ slackReactions' = IF ok THEN slackReactions
                             ELSE Append(slackReactions, MarshalSlackReaction(undo))
        /\ mainLog' = Append(mainLog, IF ok THEN Log("INFO", "Successfully published Poppit command")
                                      ELSE Log("ERROR", "Error publishing Poppit command"))
        /\ mainPc' = "select"
        /\ UNCHANGED <<lisPc, cancelled, allowedRepos, item, metadata, output, outOut, lisLog,
                       nEvents, nOutputs, probe>>

\* createPoppitCommand and publishPoppitCommand
PublishCommand(ok) ==
    LET cmd == createPoppitCommand(metadata.meta, item.Channel, item.Ts)
    IN  /\ mainPc = "command"
        /\ evOut' = Append(evOut, Call("commands", cmd, ok))
        /\ poppitCommands' = IF ok THEN Append(poppitCommands, MarshalPoppitCommand(cmd))
                             ELSE poppitCommands
        /\ mainLog' = Append(mainLog, IF ok THEN Log("INFO", "Successfully published Poppit command")
                                      ELSE Log("ERROR", "Error publishing Poppit command"))
        /\ mainPc' = "select"
        /\ UNCHANGED <<lisPc, cancelled, allowedRepos, item, metadata, output, outOut, lisLog,
                       slackReactions, nEvents, nOutputs, probe>>

(***************************************************************************)
(* listenForCommandOutput and processCommandOutput.  The locals of a call  *)
(* that returned at the filter are gone: output stays Unset.               *)
(***************************************************************************)
ListenerSubscribe ==
    /\ lisPc = "subscribe"
    /\ lisPc' = "select"
    /\ lisLog' = <<Log("INFO", "Subscribed to Redis channel")>>
    /\ UNCHANGED <<mainPc, cancelled, allowedRepos, item, metadata, evOut, mainLog, output,
                   outOut, poppitCommands, slackReactions, nEvents, nOutputs, probe>>

\* case <-ctx.Done()
ListenerExit ==
    /\ lisPc = "select"
    /\ cancelled
    /\ lisPc' = "exited"
    /\ UNCHANGED <<mainPc, cancelled, allowedRepos, item, metadata, evOut, mainLog, output,
                   outOut, lisLog, poppitCommands, slackReactions, nEvents, nOutputs, probe>>

OutputVerdict_NoTypeCheck(out) ==
    IF out.err THEN Log("ERROR", "Error parsing command output")
    ELSE IF out.Command # DeploymentCommand THEN Log("DEBUG", "Ignoring command")
    ELSE IF out.Metadata = Nil THEN Log("WARN", "Command output missing metadata")
    ELSE Log("INFO", "Processing completion")

\* the filter of processCommandOutput, as the log call it ends in
OutputVerdict(out) ==
    IF out.err THEN Log("ERROR", "Error parsing command output")
    ELSE IF out.Type # VibeDeployType THEN Log("DEBUG", "Ignoring command output type")
    ELSE IF out.Command # DeploymentCommand THEN Log("DEBUG", "Ignoring command")
    ELSE IF out.Metadata = Nil THEN Log("WARN", "Command output missing metadata")
    ELSE Log("INFO", "Processing completion")

ReceiveCommandOutput_ReturnOnParseError(payload) ==
    LET out == UnmarshalCommandOutput(payload)
        received == <<Log("DEBUG", "Received command output message")>>
        verdict == OutputVerdict(out)
        accepted == verdict.msg = "Processing completion"
    IN  /\ lisPc = "select"
        /\ nOutputs' = nOutputs + 1
        /\ output' = IF accepted THEN out ELSE Unset
        /\ outOut' = <<>>
        /\ lisLog' = Append(received, verdict)
        /\ lisPc' = IF accepted THEN "removeGear" ELSE IF out.err THEN "exited" ELSE "select"
        /\ UNCHANGED <<mainPc, cancelled, allowedRepos, item, metadata, evOut, mainLog,
                       poppitCommands, slackReactions, nEvents, probe>>

\* case msg := <-ch: decode the payload and run the filter
ReceiveCommandOutput(payload) ==
    LET out == UnmarshalCommandOutput(payload)
        received == <<Log("DEBUG", "Received command output message")>>
        verdict == OutputVerdict(out)
        accepted == verdict.msg = "Processing completion"
    IN  /\ lisPc = "select"
        /\ nOutputs' = nOutputs + 1
        /\ output' = IF accepted THEN out ELSE Unset
        /\ outOut' = <<>>
        /\ lisLog' = Append(received, verdict)
        /\ lisPc' = IF accepted THEN "removeGear" ELSE "select"
        /\ UNCHANGED <<mainPc, cancelled, allowedRepos, item, metadata, evOut, mainLog,
                       poppitCommands, slackReactions, nEvents, probe>>

\* the two reactions of the terminal transition, in the order they are published
CompletionReactions_RocketFirst(out) ==
    <<SlackReaction(out.Metadata.Channel, out.Metadata.Ts, RocketReaction, FALSE),
      SlackReaction(out.Metadata.Channel, out.Metadata.Ts, GearReaction, TRUE)>>

CompletionReactions(out) ==
    <<SlackReaction(out.Metadata.Channel, out.Metadata.Ts, GearReaction, TRUE),
      SlackReaction(out.Metadata.Channel, out.Metadata.Ts, RocketReaction, FALSE)>>

RemoveGear_AbortOnError(ok) ==
    LET r == CompletionReactions(output)[1]
    IN  /\ lisPc = "removeGear"
        /\ outOut' = Append(outOut, Call("reactions", r, ok))
        /\ slackReactions' = IF ok THEN Append(slackReactions, MarshalSlackReaction(r))
                             ELSE slackReactions
        /\ lisLog' = Append(lisLog, IF ok THEN Log("INFO", "Removed gear reaction")
                                    ELSE Log("ERROR", "Error removing gear reaction"))
        /\ lisPc' = IF ok THEN "addRocket" ELSE "select"
        /\ UNCHANGED <<mainPc, cancelled, allowedRepos, item, metadata, evOut, mainLog, output,
                       poppitCommands, nEvents, nOutputs, probe>>

RemoveGear_OnMainGoroutine(ok) ==
    LET r == CompletionReactions(output)[1]
    IN  /\ lisPc = "removeGear"
        /\ mainPc = "select"
        /\ outOut' = Append(outOut, Call("reactions", r, ok))
        /\ slackReactions' = IF ok THEN Append(slackReactions, MarshalSlackReaction(r))
                             ELSE slackReactions
        /\ lisLog' = Append(lisLog, IF ok THEN Log("INFO", "Removed gear reaction")
                                    ELSE Log("ERROR", "Error removing gear reaction"))
        /\ lisPc' = "addRocket"
        /\ UNCHANGED <<mainPc, cancelled, allowedRepos, item, metadata, evOut, mainLog, output,
                       poppitCommands, nEvents, nOutputs, probe>>

\* publishSlackReaction(..., GearReaction, true, ...): an error is only logged
RemoveGear(ok) ==
    LET r == CompletionReactions(output)[1]
    IN  /\ lisPc = "removeGear"
        /\ outOut' = Append(outOut, Call("reactions", r, ok))
        /\ slackReactions' = IF ok THEN Append(slackReactions, MarshalSlackReaction(r))
                             ELSE slackReactions
        /\ lisLog' = Append(lisLog, IF ok THEN Log("INFO", "Removed gear reaction")
                                    ELSE Log("ERROR", "Error removing gear reaction"))
        /\ lisPc' = "addRocket"
        /\ UNCHANGED <<mainPc, cancelled, allowedRepos, item, metadata, evOut, mainLog, output,
                       poppitCommands, nEvents, nOutputs, probe>>

\* publishSlackReaction(..., RocketReaction, false, ...): an error is only logged
AddRocket(ok) ==
    LET r == CompletionReactions(output)[2]
    IN  /\ lisPc = "addRocket"
        /\ outOut' = Append(outOut, Call("reactions", r, ok))
        /\ slackReactions' = IF ok THEN Append(slackReactions, MarshalSlackReaction(r))
                             ELSE slackReactions
        /\ lisLog' = Append(lisLog, IF ok THEN Log("INFO", "Successfully published rocket reaction")
                                    ELSE Log("ERROR", "Error publishing rocket reaction"))
        /\ lisPc' = "select"
        /\ UNCHANGED <<mainPc, cancelled, allowedRepos, item, metadata, evOut, mainLog, output,
                       poppitCommands, nEvents, nOutputs, probe>>

(***************************************************************************)
(* The specification: the running service.  SpecLifecycle adds the         *)
(* shutdown signal and the exit of the two loops.                          *)
(***************************************************************************)
Next ==
    \/ \E slackToken \in {"", "xoxb-token"}, configPath \in ConfigPaths,
          file \in ConfigFiles, pingOk \in BOOLEAN :
            Startup(slackToken, configPath, file, pingOk)
    \/ /\ nEvents < MaxEvents
       /\ \E payload \in ReactionPayloads : ReceiveReactionEvent(payload)
    \/ /\ mainPc = "fetch"
       /\ \E resp \in SlackResponses(item.Channel, item.Ts) :
            FetchMessageMetadata(resp)
    \/ \E ok \in BOOLEAN : PublishGear(ok)
    \/ \E ok \in BOOLEAN : PublishCommand(ok)
    \/ ListenerSubscribe
    \/ /\ nOutputs < MaxOutputs
       /\ \E payload \in OutputPayloads : ReceiveCommandOutput(payload)
    \/ \E ok \in BOOLEAN : RemoveGear(ok)
    \/ \E ok \in BOOLEAN : AddRocket(ok)

Spec == Init /\ [][Next]_vars

NextLifecycle ==
    \/ Next
    \/ Shutdown
    \/ MainExit
    \/ ListenerExit

SpecLifecycle == Init /\ [][NextLifecycle]_vars

(***************************************************************************)
(* SpecCodec: a command is synthesized for a branch name drawn from the    *)
(* strings over CodecRunes, written to its wire form and read back.        *)
(***************************************************************************)
CodecRunes == {"x", "/", "\"", "\\", "<", "&"}

RECURSIVE StringsUpTo(_)
StringsUpTo(n) ==
    IF n = 0 THEN {""}
    ELSE StringsUpTo(n - 1) \cup {s \o c : s \in StringsUpTo(n - 1), c \in CodecRunes}

CodecBranches == StringsUpTo(MaxBranchLen) \ {""}

InitCodec ==
    /\ InitProcess
    /\ probe \in {[stage |-> "metadata", meta |-> [Repository |-> "org/app", Branch |-> b]] :
                    b \in CodecBranches}

\* createPoppitCommand
Synthesize(channel, timestamp) ==
    /\ probe # Unset
    /\ probe.stage = "metadata"
    /\ probe' = [stage |-> "command",
                 cmd |-> createPoppitCommand(probe.meta, channel, timestamp)]
    /\ UNCHANGED <<mainPc, lisPc, cancelled, allowedRepos, item, metadata, evOut, mainLog,
                   output, outOut, lisLog, poppitCommands, slackReactions, nEvents, nOutputs>>

\* json.Marshal(cmd) of publishPoppitCommand
Encode ==
    /\ probe # Unset
    /\ probe.stage = "command"
    /\ probe' = [stage |-> "wire",
                 cmd |-> probe.cmd,
                 payload |-> [MarshalPoppitCommand(probe.cmd) EXCEPT
                                 !.commands = MarshalStringArray(@)]]
    /\ UNCHANGED <<mainPc, lisPc, cancelled, allowedRepos, item, metadata, evOut, mainLog,
                   output, outOut, lisLog, poppitCommands, slackReactions, nEvents, nOutputs>>

\* json.Unmarshal of the payload into a PoppitCommand
Decode ==
    /\ probe # Unset
    /\ probe.stage = "wire"
    /\ probe' = [stage |-> "decoded",
                 cmd |-> probe.cmd,
                 payload |-> probe.payload,
                 Commands |-> UnmarshalStringArray(probe.payload.commands)]
    /\ UNCHANGED <<mainPc, lisPc, cancelled, allowedRepos, item, metadata, evOut, mainLog,
                   output, outOut, lisLog, poppitCommands, slackReactions, nEvents, nOutputs>>

NextCodec ==
    \/ \E channel \in Channels, timestamp \in TsSet : Synthesize(channel, timestamp)
    \/ Encode
    \/ Decode

SpecCodec == InitCodec /\ [][NextCodec]_vars

(***************************************************************************)
(* SpecConfig: the service with the file at the configured allowlist path  *)
(* as state (probe), so that the file can change while the service runs.   *)
(* The repositories of the fetched messages and the lists of the file are  *)
(* near misses of each other; the reaction and the completion notice are   *)
(* the ones that pass the filters.                                         *)
(***************************************************************************)
GateRepos == {"org/app", "org/app2", "Org/App", "org/other"}

GateFiles ==
    {[kind |-> "absent"], [kind |-> "unreadable"], [kind |-> "malformed"]}
    \cup {[kind |-> "yaml", allowed_repos |-> l] :
            l \in {<<>>, <<"org/app">>, <<"org/*">>, <<"org/app", "org/other">>}}

GateReaction ==
    [event |-> [type |-> "reaction_added", user |-> "U1", reaction |-> "rocket",
                item |-> [type |-> "message", channel |-> "C1", ts |-> "100.1"]]]

GateResponses ==
    {[err |-> FALSE,
      Messages |-> <<[Ts |-> "100.1",
                      EventPayload |-> [repository |-> JString(r),
                                        branch |-> JString("feat/x")]]>>] : r \in GateRepos}

GateNotice ==
    [metadata |-> [channel |-> "C1", ts |-> "100.1"], type |-> "vibe-deploy",
     command |-> "docker compose up -d", output |-> "ok"]

InitConfig ==
    /\ InitProcess
    /\ probe \in [path : ConfigPaths, file : GateFiles]

\* somebody rewrites, removes or creates the file while the service runs
ConfigFileChanges(file) ==
    /\ mainPc \notin {"start", "fatal"}
    /\ probe.file # file
    /\ probe' = [probe EXCEPT !.file = file]
    /\ UNCHANGED <<mainPc, lisPc, cancelled, allowedRepos, item, metadata, evOut, mainLog,
                   output, outOut, lisLog, poppitCommands, slackReactions, nEvents, nOutputs>>

NextConfig ==
    \/ \E slackToken \in {"", "xoxb-token"}, pingOk \in BOOLEAN :
            Startup(slackToken, probe.path, probe.file, pingOk)
    \/ \E file \in GateFiles : ConfigFileChanges(file)
    \/ /\ nEvents < MaxEvents
       /\ ReceiveReactionEvent(GateReaction)
    \/ \E resp \in GateResponses : FetchMessageMetadata(resp)
    \/ PublishGear(TRUE)
    \/ PublishCommand(TRUE)
    \/ ListenerSubscribe
    \/ /\ nOutputs < MaxOutputs
       /\ ReceiveCommandOutput(GateNotice)
    \/ RemoveGear(TRUE)
    \/ AddRocket(TRUE)

SpecConfig == InitConfig /\ [][NextConfig]_vars

(***************************************************************************)
(* SpecFetchHangs: the Slack history call of the primary loop never        *)
(* returns (it has no timeout), so the primary loop stays in               *)
(* getMessageMetadata once it gets there.  The listener goroutine is       *)
(* scheduled and its Redis calls return: weak fairness of its steps.  No   *)
(* fairness for the receipt of a payload: none may ever arrive.            *)
(***************************************************************************)
NextFetchHangs ==
    \/ \E slackToken \in {"", "xoxb-token"}, configPath \in ConfigPaths,
          file \in ConfigFiles, pingOk \in BOOLEAN :
            Startup(slackToken, configPath, file, pingOk)
    \/ /\ nEvents < MaxEvents
       /\ \E payload \in ReactionPayloads : ReceiveReactionEvent(payload)
    \/ ListenerSubscribe
    \/ /\ nOutputs < MaxOutputs
       /\ \E payload \in OutputPayloads : ReceiveCommandOutput(payload)
    \/ \E ok \in BOOLEAN : RemoveGear(ok)
    \/ \E ok \in BOOLEAN : AddRocket(ok)

SpecFetchHangs ==
    /\ Init
    /\ [][NextFetchHangs]_vars
    /\ WF_vars(ListenerSubscribe)
    /\ WF_vars(\E ok \in BOOLEAN : RemoveGear(ok))
    /\ WF_vars(\E ok \in BOOLEAN : AddRocket(ok))

(***************************************************************************)
(* SpecStream: a stream of accepted reaction events.  Channel C1 holds two *)
(* pull-request messages for the same repository and branch; every event   *)
(* is a rocket reaction of a user on one of them, and the history call     *)
(* fails or returns the reacted message.  The executor reports the go-live *)
(* instruction of the command for the first message only: the completion   *)
(* notice for the second never arrives.                                    *)
(***************************************************************************)
StreamReactions ==
    {[event |-> [type |-> "reaction_added", user |-> "U1", reaction |-> "rocket",
                 item |-> [type |-> "message", channel |-> "C1", ts |-> t]]] : t \in TsSet}

StreamResponses(timestamp) ==
    {[err |-> TRUE],
     [err |-> FALSE,
      Messages |-> <<[Ts |-> timestamp,
                      EventPayload |-> [repository |-> JString("org/app"),
                                        branch |-> JString("feat/x")]]>>]}

StreamNotice ==
    [metadata |-> [channel |-> "C1", ts |-> Timestamps[1]], type |-> "vibe-deploy",
     command |-> "docker compose up -d", output |-> "ok"]

NextStream ==
    \/ Startup("xoxb-token", "", [kind |-> "absent"], TRUE)
    \/ /\ nEvents < MaxStream
       /\ \E payload \in StreamReactions : ReceiveReactionEvent(payload)
    \/ /\ mainPc = "fetch"
       /\ \E resp \in StreamResponses(item.Ts) : FetchMessageMetadata(resp)
    \/ \E ok \in BOOLEAN : PublishGear(ok)
    \/ \E ok \in BOOLEAN : PublishCommand(ok)
    \/ ListenerSubscribe
    \/ /\ nOutputs < MaxOutputs
       /\ ReceiveCommandOutput(StreamNotice)
    \/ \E ok \in BOOLEAN : RemoveGear(ok)
    \/ \E ok \in BOOLEAN : AddRocket(ok)

SpecStream == Init /\ [][NextStream]_vars

(***************************************************************************)
(* SpecSuppression: one rocket reaction on a message, with every list of   *)
(* up to MaxAuths authorization records over the two users, or without the *)
(* "authorizations" key.  The payload is kept in probe; the message it     *)
(* names carries pull-request metadata and Redis accepts every publish.    *)
(***************************************************************************)
AuthRecords == [user_id : Users, is_bot : BOOLEAN]

AuthListsUpTo(n) ==
    UNION {[1..k -> AuthRecords] : k \in 0..n}

SuppressionEvents ==
    {[type |-> "reaction_added", user |-> u, reaction |-> "rocket",
      item |-> [type |-> "message", channel |-> "C1", ts |-> "100.1"]] : u \in Users}

SuppressionPayloads ==
    {[event |-> e] : e \in SuppressionEvents}
    \cup [event : SuppressionEvents, authorizations : AuthListsUpTo(MaxAuths)]

SuppressionResponse ==
    [err |-> FALSE,
     Messages |-> <<[Ts |-> "100.1",
                     EventPayload |-> [repository |-> JString("org/app"),
                                       branch |-> JString("feat/x")]]>>]

InitSuppression ==
    /\ InitProcess
    /\ probe \in SuppressionPayloads

NextSuppression ==
    \/ Startup("xoxb-token", "", [kind |-> "absent"], TRUE)
    \/ /\ nEvents < MaxEvents
       /\ ReceiveReactionEvent(probe)
    \/ FetchMessageMetadata(SuppressionResponse)
    \/ PublishGear(TRUE)
    \/ PublishCommand(TRUE)
    \/ ListenerSubscribe

SpecSuppression == InitSuppression /\ [][NextSuppression]_vars

(***************************************************************************)
(* SpecLoop: the service in a closed loop with its surroundings, whose     *)
(* state is kept in probe.  A user adds rocket reactions to the messages   *)
(* of channel C1.  The reactor takes the mutations from the reactions      *)
(* channel in the order they were published and applies them as the bot    *)
(* user; every reaction it adds comes back on the reaction feed as an      *)
(* event of the bot user.  The executor takes the commands from the queue  *)
(* in order; a run that gets to the go-live instruction publishes the      *)
(* notice for it with the correlation block of the command, and a notice   *)
(* published while the listener is not subscribed is lost.  Every payload  *)
(* carries the authorization record of the installed bot.  The publishes   *)
(* of the primary loop may fail; those of the listener succeed.            *)
(***************************************************************************)
BotUser == "B1"
BotAuthorizations == <<[user_id |-> BotUser, is_bot |-> TRUE]>>

LoopStart == [events |-> <<>>, notices |-> <<>>, applied |-> 0, taken |-> 0, reacted |-> 0]

InitLoop ==
    /\ InitProcess
    /\ probe = LoopStart

ReactionAdded(user, reaction, channel, ts) ==
    [event |-> [type |-> "reaction_added", user |-> user, reaction |-> reaction,
                item |-> [type |-> "message", channel |-> channel, ts |-> ts]],
     authorizations |-> BotAuthorizations]

GoLiveNotice(cmd) ==
    [metadata |-> cmd.metadata, type |-> cmd.type, command |-> cmd.commands[6],
     output |-> "ok"]

\* the history call returns the reacted message, which carries pull-request metadata
LoopResponse(timestamp) ==
    [err |-> FALSE,
     Messages |-> <<[Ts |-> timestamp,
                     EventPayload |-> [repository |-> JString("org/app"),
                                       branch |-> JString("feat/x")]]>>]

ListenerSubscribed == lisPc \in {"select", "removeGear", "addRocket"}

UserReacts(ts) ==
    /\ mainPc \in {"select", "fetch", "gear", "command"}
    /\ probe.reacted < MaxLoop
    /\ probe' = [probe EXCEPT !.events = Append(@, ReactionAdded("U1", "rocket", "C1", ts)),
                              !.reacted = @ + 1]
    /\ UNCHANGED <<mainPc, lisPc, cancelled, allowedRepos, item, metadata, evOut, mainLog,
                   output, outOut, lisLog, poppitCommands, slackReactions, nEvents, nOutputs>>

ReactorApplies ==
    /\ probe.applied < Len(slackReactions)
    /\ LET m == slackReactions[probe.applied + 1]
       IN  probe' = [probe EXCEPT
                        !.applied = @ + 1,
                        !.events = IF Has(m, "remove") THEN @
                                   ELSE Append(@, ReactionAdded(BotUser, m.reaction,
                                                                m.channel, m.ts))]
    /\ UNCHANGED <<mainPc, lisPc, cancelled, allowedRepos, item, metadata, evOut, mainLog,
                   output, outOut, lisLog, poppitCommands, slackReactions, nEvents, nOutputs>>

ExecutorRuns(goLive) ==
    /\ probe.taken < Len(poppitCommands)
    /\ LET cmd == poppitCommands[probe.taken + 1]
       IN  probe' = [probe EXCEPT
                        !.taken = @ + 1,
                        !.notices = IF goLive /\ ListenerSubscribed
                                    THEN Append(@, GoLiveNotice(cmd))
                                    ELSE @]
    /\ UNCHANGED <<mainPc, lisPc, cancelled, allowedRepos, item, metadata, evOut, mainLog,
                   output, outOut, lisLog, poppitCommands, slackReactions, nEvents, nOutputs>>

NextLoop ==
    \/ Startup("xoxb-token", "", [kind |-> "absent"], TRUE)
    \/ \E ts \in TsSet : UserReacts(ts)
    \/ ReactorApplies
    \/ \E goLive \in BOOLEAN : ExecutorRuns(goLive)
    \/ /\ nEvents < Len(probe.events)
       /\ ReceiveReactionEvent(probe.events[nEvents + 1])
    \/ /\ mainPc = "fetch"
       /\ FetchMessageMetadata(LoopResponse(item.Ts))
    \/ \E ok \in BOOLEAN : PublishGear(ok)
    \/ \E ok \in BOOLEAN : PublishCommand(ok)
    \/ ListenerSubscribe
    \/ /\ nOutputs < Len(probe.notices)
       /\ ReceiveCommandOutput(probe.notices[nOutputs + 1])
    \/ RemoveGear(TRUE)
    \/ AddRocket(TRUE)

SpecLoop == InitLoop /\ [][NextLoop]_vars

\* the loops and the components around them are scheduled and their calls return
SpecLoopFair == SpecLoop /\ WF_vars(NextLoop)

(***************************************************************************)
(* Vocabulary of the properties.                                           *)
(***************************************************************************)
Last(seq) == seq[Len(seq)]

\* the handler of the last accepted event has returned / is running
Resolved == item # Unset /\ metadata # Unset /\ ~metadata.err /\ metadata.meta # Nil
CommandCalls == {i \in 1..Len(evOut) : evOut[i].sink = "commands"}

\* the wire payload's own view of the filters, written out from the claims
WireAuthorizations(p) == Get(p, "authorizations", <<>>)
WireFromBot(p) ==
    \E i \in 1..Len(WireAuthorizations(p)) :
        /\ WireAuthorizations(p)[i].is_bot
        /\ WireAuthorizations(p)[i].user_id = p.event.user

NoOutboundFromEvent ==
    /\ mainPc' = "select"
    /\ evOut' = <<>>
    /\ poppitCommands' = poppitCommands
    /\ slackReactions' = slackReactions

ExpectedDir(repository) == "/app/repos" \o "/" \o repository
ExpectedInstructions(branch) ==
    <<"git fetch origin", "git checkout " \o branch, "git pull", "docker compose build",
      "docker compose down", "docker compose up -d", "git checkout main">>

(***************************************************************************)
(* C1..C3: the Event Filter.                                               *)
(***************************************************************************)
\* C1: a reaction event whose reaction name is not exactly "rocket" (case-sensitive)
\* makes processReactionEvent return without any outbound message: no publish call
\* is made, nothing is pushed to the command queue or to the reaction list.
NonTriggerPayloads == {p \in ReactionPayloads \ {Malformed} : p.event.reaction # "rocket"}

\* written as "a step that receives a payload leaves no outbound message, or else
\* it is no receive of such a payload", which is the same statement
C1_NonTriggerReactionIgnored ==
    [][nEvents' # nEvents
          => (NoOutboundFromEvent \/ \A p \in NonTriggerPayloads : ~ReceiveReactionEvent(p))]_vars

C1_Witness ==
    /\ mainPc = "select"
    /\ nEvents > 0
    /\ Len(mainLog) = 2
    /\ mainLog[2] = Log("DEBUG", "Ignoring reaction")
    /\ evOut = <<>>

\* C2: a reaction event whose item type is not "message" produces no outbound
\* message, also when its reaction is the trigger reaction.
NonMessagePayloads == {p \in ReactionPayloads \ {Malformed} : p.event.item.type # "message"}

C2_NonMessageItemIgnored ==
    [][nEvents' # nEvents
          => (NoOutboundFromEvent \/ \A p \in NonMessagePayloads : ~ReceiveReactionEvent(p))]_vars

C2_Witness ==
    /\ mainPc = "select"
    /\ nEvents > 0
    /\ Len(mainLog) = 2
    /\ mainLog[2] = Log("DEBUG", "Ignoring item type")
    /\ evOut = <<>>

\* C3: a reaction event whose acting user is the user_id of an authorization record
\* of the same payload flagged is_bot=true produces no outbound message.
BotPayloads == {p \in ReactionPayloads \ {Malformed} : WireFromBot(p)}

C3_BotReactionIgnored ==
    [][nEvents' # nEvents
          => (NoOutboundFromEvent \/ \A p \in BotPayloads : ~ReceiveReactionEvent(p))]_vars

C3_Witness ==
    /\ mainPc = "select"
    /\ nEvents > 0
    /\ Len(mainLog) = 2
    /\ mainLog[2] = Log("INFO", "Ignoring rocket reaction from bot user")
    /\ evOut = <<>>

(***************************************************************************)
(* C4..C6, C9: the allowlist gate, the command and the in-progress marker. *)
(***************************************************************************)
AllowlistPermits ==
    allowedRepos = NilMap \/ metadata.meta.Repository \in allowedRepos.repos

HasExpectedShape(cmd) ==
    /\ cmd.Dir = ExpectedDir(metadata.meta.Repository)
    /\ cmd.Commands = ExpectedInstructions(metadata.meta.Branch)

C4_HandledInv ==
    (mainPc = "select" /\ Resolved /\ AllowlistPermits)
        => \E i \in CommandCalls :
              /\ CommandCalls = {i}
              /\ HasExpectedShape(evOut[i].req)

C4_EnqueueStep ==
    (mainPc = "command" /\ mainPc' # "command")
        => LET call == Last(evOut')
           IN  /\ call.sink = "commands"
               /\ IF call.ok
                  THEN /\ Len(poppitCommands') = Len(poppitCommands) + 1
                       /\ SubSeq(poppitCommands', 1, Len(poppitCommands)) = poppitCommands
                       /\ Last(poppitCommands').dir = ExpectedDir(metadata.meta.Repository)
                       /\ Last(poppitCommands').commands = ExpectedInstructions(metadata.meta.Branch)
                  ELSE poppitCommands' = poppitCommands

C5_DisallowedRepoProducesNothing ==
    (Resolved /\ allowedRepos # NilMap /\ metadata.meta.Repository \notin allowedRepos.repos)
        => (mainPc = "select" /\ evOut = <<>>)

C5_Witness ==
    /\ Resolved
    /\ allowedRepos = LoadedMap({"org/app"})
    /\ metadata.meta.Repository = "org/other"
    /\ Last(mainLog) = Log("INFO", "Repository is not in the allowed list")
    /\ evOut = <<>>

\* C6: within the handling of one event, every enqueue call of a command is
\* preceded by exactly one publish call of an (add, gear) reaction, and that call
\* names the channel and ts of the command's correlation block; the publish call
\* counts whether or not it succeeded.
C6_GearAttemptPrecedesEnqueue ==
    \A i \in CommandCalls :
        \E j \in 1..(i - 1) :
            /\ {k \in 1..(i - 1) : evOut[k].sink = "reactions"} = {j}
            /\ evOut[j].req = [Reaction |-> "gear",
                               Channel |-> evOut[i].req.Metadata.Channel,
                               Ts |-> evOut[i].req.Metadata.Ts,
                               Remove |-> FALSE]

C6_Witness ==
    /\ Len(evOut) = 2
    /\ evOut[1].sink = "reactions"
    /\ ~evOut[1].ok
    /\ evOut[2].sink = "commands"
    /\ evOut[2].ok

\* C9: the command on the queue for an accepted event carries the repository and
\* branch of the resolved metadata, the type "vibe-deploy" and a correlation block
\* equal to the channel and ts of the event's item.
C9_CommandCarriesMetadataAndCorrelation ==
    (mainPc = "select" /\ Resolved /\ CommandCalls # {} /\ Last(evOut).ok)
        => LET w == Last(poppitCommands)
           IN  /\ w.repo = metadata.meta.Repository
               /\ w.branch = metadata.meta.Branch
               /\ w.type = "vibe-deploy"
               /\ Has(w, "metadata")
               /\ w.metadata = [channel |-> item.Channel, ts |-> item.Ts]

C9_Witness ==
    /\ mainPc = "select"
    /\ Resolved
    /\ CommandCalls # {}
    /\ Last(evOut).ok
    /\ item.Ts = "200.2"
    /\ Last(poppitCommands).metadata = [channel |-> "C1", ts |-> "200.2"]
    /\ Last(poppitCommands).repo = "org/other"

(***************************************************************************)
(* C7, C8: the Completion Listener.                                        *)
(***************************************************************************)
WireMatches(p) ==
    /\ p.type = "vibe-deploy"
    /\ p.command = "docker compose up -d"
    /\ Has(p, "metadata")

ExpectedCompletion(m) ==
    <<[Reaction |-> "gear", Channel |-> m.Channel, Ts |-> m.Ts, Remove |-> TRUE],
      [Reaction |-> "rocket", Channel |-> m.Channel, Ts |-> m.Ts, Remove |-> FALSE]>>

MatchingPayloads == {p \in OutputPayloads \ {Malformed} : WireMatches(p)}

C7_AcceptStep ==
    nOutputs' # nOutputs
        => \A p \in MatchingPayloads :
              ReceiveCommandOutput(p)
                  => /\ lisPc' = "removeGear"
                     /\ output'.Metadata = [Channel |-> Get(p.metadata, "channel", ""),
                                            Ts |-> Get(p.metadata, "ts", "")]

C7_PublishStep ==
    (lisPc \in {"removeGear", "addRocket"} /\ lisPc' # lisPc)
        => LET call == Last(outOut')
           IN  slackReactions' = IF call.ok
                                 THEN Append(slackReactions, MarshalSlackReaction(call.req))
                                 ELSE slackReactions

C7_CallsInv ==
    output # Unset
        => LET calls == [i \in 1..Len(outOut) |-> outOut[i].req]
               expected == ExpectedCompletion(output.Metadata)
           IN  /\ lisPc = "removeGear" => calls = <<>>
               /\ lisPc = "addRocket" => calls = <<expected[1]>>
               /\ lisPc = "select" => calls = expected
               /\ lisPc \in {"removeGear", "addRocket", "select"}

MismatchedPayloads == {p \in OutputPayloads \ {Malformed} : ~WireMatches(p)}

NoOutboundFromOutput ==
    /\ lisPc' = "select"
    /\ outOut' = <<>>
    /\ slackReactions' = slackReactions

\* written as "a step that receives a notice makes no publish call, or else it is
\* no receive of such a notice"
C8_MismatchedNoticeIgnored ==
    [][nOutputs' # nOutputs
          => (NoOutboundFromOutput \/ \A p \in MismatchedPayloads : ~ReceiveCommandOutput(p))]_vars

C8_Witness ==
    /\ lisPc = "select"
    /\ nOutputs > 0
    /\ output = Unset
    /\ Len(lisLog) = 2
    /\ lisLog[2] = Log("WARN", "Command output missing metadata")
    /\ outOut = <<>>

(***************************************************************************)
(* C10: the wire form of a reaction mutation.                              *)
(***************************************************************************)
\* C10 as stated: every object on the reaction list carries the four fields
\* reaction, channel, ts and a boolean remove.
C10_Original ==
    \A i \in 1..Len(slackReactions) :
        /\ DOMAIN slackReactions[i] = {"reaction", "channel", "ts", "remove"}
        /\ slackReactions[i].remove \in BOOLEAN

C10_ListInv ==
    \A i \in 1..Len(slackReactions) :
        /\ {"reaction", "channel", "ts"} \subseteq DOMAIN slackReactions[i]
        /\ DOMAIN slackReactions[i] \subseteq {"reaction", "channel", "ts", "remove"}
        /\ Has(slackReactions[i], "remove") => slackReactions[i].remove = TRUE

C10_PushStep ==
    slackReactions' # slackReactions
        => LET call == IF mainPc' # mainPc THEN Last(evOut') ELSE Last(outOut')
               w == Last(slackReactions')
           IN  /\ Len(slackReactions') = Len(slackReactions) + 1
               /\ w.reaction = call.req.Reaction
               /\ w.channel = call.req.Channel
               /\ w.ts = call.req.Ts
               /\ Has(w, "remove") <=> call.req.Remove

\* C10 (amended): every object pushed to the reaction list carries reaction,
\* channel and ts; a remove mutation also carries remove=true, an add mutation
\* carries no remove field at all (a false remove is omitted from the encoding).
C10_RemoveFieldOnlyWhenTrue == []C10_ListInv /\ [][C10_PushStep]_vars

C10_Witness ==
    \E i, j \in 1..Len(slackReactions) :
        /\ slackReactions[i] = [reaction |-> "gear", channel |-> "C1", ts |-> "100.1"]
        /\ slackReactions[j] = [reaction |-> "gear", channel |-> "C1", ts |-> "100.1",
                                remove |-> TRUE]

(***************************************************************************)
(* C11: the round trip of the instruction list through the wire form.      *)
(***************************************************************************)
\* C11: writing a synthesized command to its wire form and reading the wire form
\* back yields the instruction list of the command: the same seven strings, element
\* by element and in the same order.
C11_RoundTripPreservesInstructions ==
    (probe # Unset /\ probe.stage = "decoded")
        => /\ probe.Commands # Malformed
           /\ Len(probe.Commands) = Len(probe.cmd.Commands)
           /\ \A i \in 1..Len(probe.cmd.Commands) : probe.Commands[i] = probe.cmd.Commands[i]

C11_Witness ==
    /\ probe # Unset
    /\ probe.stage = "decoded"
    /\ probe.cmd.Branch = "x\""
    /\ probe.payload.commands =
          "[\"git fetch origin\",\"git checkout x\\\"\",\"git pull\",\"docker compose build\","
          \o "\"docker compose down\",\"docker compose up -d\",\"git checkout main\"]"
    /\ probe.Commands[2] = "git checkout x\""
    /\ probe.Commands[6] = "docker compose up -d"

(***************************************************************************)
(* C12, C13, C20: the three results of the Metadata Resolver.              *)
(***************************************************************************)
FailedResponses == {[err |-> TRUE], [err |-> FALSE, Messages |-> <<>>]}

IsStringOrAbsent(payload, key) == ~Has(payload, key) \/ payload[key].t = "string"
TextOf(payload, key) == IF Has(payload, key) THEN payload[key].s ELSE ""

\* a message without structured metadata, or with metadata whose repository or
\* branch is empty (a key that is absent reads as empty)
NoMetadataMessages ==
    {m \in SlackMessages :
        \/ m.EventPayload = <<>>
        \/ /\ IsStringOrAbsent(m.EventPayload, "repository")
           /\ IsStringOrAbsent(m.EventPayload, "branch")
           /\ \/ TextOf(m.EventPayload, "repository") = ""
              \/ TextOf(m.EventPayload, "branch") = ""}

NoMetadataResponses == {[err |-> FALSE, Messages |-> <<m>>] : m \in NoMetadataMessages}

\* metadata that is present but does not decode as PRMetadata, or is foreign
MalformedMetadataMessages ==
    {m \in SlackMessages :
        /\ m.EventPayload # <<>>
        /\ \/ ~IsStringOrAbsent(m.EventPayload, "repository")
           \/ ~IsStringOrAbsent(m.EventPayload, "branch")
           \/ DOMAIN m.EventPayload \cap {"repository", "branch"} = {}}

MalformedMetadataResponses ==
    {[err |-> FALSE, Messages |-> <<m>>] : m \in MalformedMetadataMessages}

FailureLogged(log) == \E i \in 1..Len(log) : log[i].level \in {"ERROR", "WARN"}

ReceiveNext == \E p \in ReactionPayloads : ReceiveReactionEvent(p)

\* C12: a fetch that fails or returns zero messages is a resolution error, and a
\* resolution error aborts the event: the handler has returned with no publish call
\* made (no reaction mutation, no command), the failure is logged, and the primary
\* loop is back at its select, where the receive of the next message is enabled.
C12_ResolutionErrorAbortsEvent ==
    /\ \A resp \in FailedResponses : getMessageMetadata(resp) = [err |-> TRUE, meta |-> Nil]
    /\ (metadata # Unset /\ metadata.err)
          => /\ mainPc = "select"
             /\ evOut = <<>>
             /\ Last(mainLog) = Log("ERROR", "Error getting message metadata")
             /\ ENABLED ReceiveNext

C12_Witness ==
    /\ item # Unset
    /\ metadata = [err |-> TRUE, meta |-> Nil]
    /\ mainPc = "select"
    /\ evOut = <<>>
    /\ poppitCommands = <<>>
    /\ slackReactions = <<>>
    /\ nEvents = 1

\* C13: a message without structured metadata, or with metadata whose repository or
\* branch is empty, resolves to the non-error "no metadata" result, and on that
\* result the event is skipped: the handler has returned with no publish call made
\* and without logging a failure.
C13_NoMetadataSkipsEvent ==
    /\ \A resp \in NoMetadataResponses : getMessageMetadata(resp) = [err |-> FALSE, meta |-> Nil]
    /\ (metadata # Unset /\ ~metadata.err /\ metadata.meta = Nil)
          => /\ mainPc = "select"
             /\ evOut = <<>>
             /\ ~FailureLogged(mainLog)
             /\ Last(mainLog) = Log("DEBUG", "No PR metadata found in message")

C13_Witness ==
    /\ item # Unset
    /\ metadata = [err |-> FALSE, meta |-> Nil]
    /\ mainPc = "select"
    /\ evOut = <<>>
    /\ Len(mainLog) = 3
    /\ mainLog[3].level = "DEBUG"

\* C20 as stated: a fetched message whose metadata is present but malformed or
\* foreign resolves to "no metadata"; the step that resolves it reports no
\* resolution error and logs no failure.
C20_Original ==
    [][mainPc = "fetch"
          => \A resp \in MalformedMetadataResponses :
                FetchMessageMetadata(resp)
                    => /\ metadata' = [err |-> FALSE, meta |-> Nil]
                       /\ ~FailureLogged(mainLog')]_vars

(***************************************************************************)
(* C14..C16: the allowlist gate, its lifetime, and fatal startup.          *)
(***************************************************************************)
\* the handler of the current event stopped at the allowlist gate / went past it
Gated ==
    /\ mainPc = "select"
    /\ evOut = <<>>
    /\ Last(mainLog) = Log("INFO", "Repository is not in the allowed list")

PastGate == mainPc \in {"gear", "command"} \/ evOut # <<>>

\* C14: with no set loaded every repository passes the gate; with a set loaded a
\* repository passes exactly when some entry of the set is that very string, so a
\* set without entries lets none pass.
C14_GateIsExactMembership ==
    /\ \A repo \in GateRepos :
          isRepoAllowed(repo, allowedRepos)
              <=> (allowedRepos = NilMap \/ \E r \in allowedRepos.repos : r = repo)
    /\ Resolved
          => /\ Gated \/ PastGate
             /\ allowedRepos = NilMap => PastGate
             /\ allowedRepos # NilMap
                   => (PastGate <=> \E r \in allowedRepos.repos : r = metadata.meta.Repository)
             /\ allowedRepos = LoadedMap({}) => Gated

C14_Witness ==
    /\ Resolved
    /\ allowedRepos = LoadedMap({"org/app"})
    /\ metadata.meta.Repository = "org/app2"
    /\ Gated

ListedRepos(file) == {file.allowed_repos[i] : i \in 1..Len(file.allowed_repos)}

C15_Step ==
    /\ (mainPc = "start" /\ mainPc' = "select")
          => allowedRepos' = IF probe.path = "" \/ probe.file.kind = "absent"
                             THEN NilMap
                             ELSE LoadedMap(ListedRepos(probe.file))
    /\ mainPc # "start" => allowedRepos' = allowedRepos

\* C15: the step that starts the service sets the allowlist (no path configured or
\* no file at the path: permit all; otherwise the set the file lists), and no later
\* step changes it: not the handling of a message by either loop, and not a change
\* of the file.
C15_AllowlistFixedAtStartup == [][C15_Step]_vars

C15_Witness ==
    /\ allowedRepos = LoadedMap({"org/app"})
    /\ probe.path # ""
    /\ probe.file = [kind |-> "yaml", allowed_repos |-> <<"org/app", "org/other">>]
    /\ Resolved
    /\ metadata.meta.Repository = "org/other"
    /\ Gated

C16_FatalInv ==
    mainPc = "fatal"
        => /\ lisPc = "idle"
           /\ nEvents = 0
           /\ nOutputs = 0
           /\ evOut = <<>>
           /\ outOut = <<>>
           /\ ~ENABLED ReceiveNext
           /\ ~ENABLED (\E p \in OutputPayloads : ReceiveCommandOutput(p))

C16_StartupStep ==
    /\ (mainPc = "start" /\ mainPc' # "start")
          => \A slackToken \in {"", "xoxb-token"}, pingOk \in BOOLEAN :
                Startup(slackToken, probe.path, probe.file, pingOk)
                    => /\ slackToken = "" => mainPc' = "fatal"
                       /\ ~pingOk => mainPc' = "fatal"
                       /\ (probe.path # "" /\ probe.file.kind = "malformed") => mainPc' = "fatal"
                       /\ (slackToken # "" /\ pingOk /\ probe.file.kind = "absent")
                             => mainPc' = "select"
    /\ mainPc = "fatal" => UNCHANGED vars

\* C16: startup ends fatally when the Slack token is missing, when the file at a
\* configured allowlist path is there but does not parse, or when the Redis ping
\* fails; after a fatal startup the listener was never started and neither loop
\* ever receives a message.  With the file absent (token and ping in order) startup
\* is not fatal.
C16_FatalStartup == []C16_FatalInv /\ [][C16_StartupStep]_vars

C16_Witness ==
    /\ mainPc = "fatal"
    /\ probe.path # ""
    /\ probe.file.kind = "malformed"
    /\ mainLog[1] = Log("FATAL", "Failed to load allowed repos configuration")
    /\ lisPc = "idle"

(***************************************************************************)
(* C17: a failed in-progress marker does not stop the deployment.          *)
(***************************************************************************)
GearFailed == Len(evOut) >= 1 /\ evOut[1].sink = "reactions" /\ ~evOut[1].ok

\* C17: when the publish call of the (add, gear) mutation failed, the handler goes
\* on: it is about to make the enqueue call, or it has made it, for the command
\* synthesized from the same event's metadata and item.
C17_GearFailureStillEnqueues ==
    GearFailed
        => \/ /\ mainPc = "command"
              /\ Len(evOut) = 1
              /\ ENABLED (\E ok \in BOOLEAN : PublishCommand(ok))
           \/ /\ mainPc = "select"
              /\ Len(evOut) = 2
              /\ evOut[2].sink = "commands"
              /\ evOut[2].req.Repo = metadata.meta.Repository
              /\ evOut[2].req.Branch = metadata.meta.Branch
              /\ evOut[2].req.Commands = ExpectedInstructions(metadata.meta.Branch)
              /\ evOut[2].req.Metadata = [Channel |-> item.Channel, Ts |-> item.Ts]

C17_Witness ==
    /\ GearFailed
    /\ mainPc = "select"
    /\ Len(evOut) = 2
    /\ evOut[2].ok
    /\ slackReactions = <<>>
    /\ Len(poppitCommands) = 1
    /\ poppitCommands[1].branch = "feat/x"

(***************************************************************************)
(* C18, C19: the two loops and the shared lifecycle signal.                *)
(***************************************************************************)
MainBlockedInFetch == mainPc = "fetch"

CompletionPublished ==
    /\ lisPc = "select"
    /\ output # Unset
    /\ [i \in 1..Len(outOut) |-> outOut[i].req] = ExpectedCompletion(output.Metadata)

C18_ListenerReceives ==
    (MainBlockedInFetch /\ lisPc = "select" /\ nOutputs < MaxOutputs)
        => \A p \in MatchingPayloads : ENABLED ReceiveCommandOutput(p)

\* C18: while the primary loop sits in a metadata fetch that never returns, the
\* listener can still receive a completion notice, and a notice it has accepted is
\* followed by its two publish calls, remove gear then add rocket, with the primary
\* loop still in the fetch.
C18_ListenerProgressesWhileFetchHangs ==
    /\ []C18_ListenerReceives
    /\ (MainBlockedInFetch /\ lisPc = "removeGear")
          ~> (MainBlockedInFetch /\ CompletionPublished)

C18_Witness ==
    /\ MainBlockedInFetch
    /\ CompletionPublished
    /\ outOut[1].ok
    /\ outOut[2].ok
    /\ slackReactions =
          <<[reaction |-> "gear", channel |-> "C1", ts |-> "200.2", remove |-> TRUE],
            [reaction |-> "rocket", channel |-> "C1", ts |-> "200.2"]>>

\* C19 as stated: once the context is cancelled, neither loop starts to process a
\* further inbound message: no payload is received on either channel any more.
C19_Original ==
    [][cancelled => (nEvents' = nEvents /\ nOutputs' = nOutputs)]_vars

(***************************************************************************)
(* C21, C22: the terminal transition of the Completion Listener.           *)
(***************************************************************************)
ReceiveNotice == \E p \in OutputPayloads : ReceiveCommandOutput(p)

\* C21: when the publish call of (gear, remove) failed, the listener goes on to the
\* publish call of (rocket, add): it is about to make it, or has made it, for the
\* same channel and ts; and once both calls are made, whichever of them failed, the
\* listener is back at its select with the receipt of the next notice enabled.
C21_CompletionCallsIndependent ==
    /\ (output # Unset /\ Len(outOut) >= 1 /\ ~outOut[1].ok)
          => \/ /\ lisPc = "addRocket"
                /\ Len(outOut) = 1
                /\ ENABLED (\E ok \in BOOLEAN : AddRocket(ok))
             \/ /\ lisPc = "select"
                /\ Len(outOut) = 2
                /\ outOut[2].req = [Reaction |-> "rocket",
                                    Channel |-> output.Metadata.Channel,
                                    Ts |-> output.Metadata.Ts,
                                    Remove |-> FALSE]
    /\ (output # Unset /\ Len(outOut) = 2)
          => (lisPc = "select" /\ ENABLED ReceiveNotice)

C21_Witness ==
    /\ output # Unset
    /\ Len(outOut) = 2
    /\ ~outOut[1].ok
    /\ outOut[2].ok
    /\ lisPc = "select"
    /\ Last(slackReactions) = [reaction |-> "rocket", channel |-> "C1", ts |-> "100.1"]
    /\ Last(lisLog) = Log("INFO", "Successfully published rocket reaction")

\* C22 as stated: the listener makes the publish calls of the terminal transition
\* only for a notice with a non-empty correlation block: no call names an empty
\* channel or an empty timestamp.
C22_Original ==
    \A i \in 1..Len(outOut) : outOut[i].req.Channel # "" /\ outOut[i].req.Ts # ""

OtherTypePayloads == {p \in ReactionPayloads \ {Malformed} : p.event.type # "reaction_added"}

\* C29 as stated: an event whose type is not "reaction_added" produces nothing:
\* the step that receives it returns to the select with no publish call, and does
\* not go on to the metadata fetch.
C29_Original ==
    [][nEvents' # nEvents
          => (NoOutboundFromEvent \/ \A p \in OtherTypePayloads : ~ReceiveReactionEvent(p))]_vars

\* the messages the at-or-before fetch can return that are not the message reacted to
EarlierMessageResponses ==
    {resp \in SlackResponses(item.Channel, item.Ts) :
        /\ ~resp.err
        /\ Len(resp.Messages) = 1
        /\ resp.Messages[1].Ts # item.Ts}

\* C30 as stated: when the fetch returns a message whose timestamp is not the
\* event's item.ts, its metadata is not used: the handler does not go on to the
\* gear reaction and the command.
C30_Original ==
    [][mainPc = "fetch"
          => \A resp \in EarlierMessageResponses :
                FetchMessageMetadata(resp) => mainPc' = "select"]_vars

(***************************************************************************)
(* C24: the go-live instruction of the command and of the listener.        *)
(***************************************************************************)
\* the verdict of the listener's filter on the notice the executor sends for one
\* instruction of a command
NoticeFor(cmd, i) ==
    [err |-> FALSE, Metadata |-> cmd.Metadata, Type |-> cmd.Type,
     Command |-> cmd.Commands[i], Output |-> "ok"]

C27_UndecodablePayloadDropped ==
    /\ EventVerdict(UnmarshalReactionEvent(Malformed)) =
          Log("ERROR", "Error parsing reaction event")
    /\ OutputVerdict(UnmarshalCommandOutput(Malformed)) =
          Log("ERROR", "Error parsing command output")
    /\ (mainLog # <<>> /\ Last(mainLog) = Log("ERROR", "Error parsing reaction event"))
          => /\ mainPc = "select"
             /\ item = Unset
             /\ evOut = <<>>
             /\ ENABLED ReceiveNext
    /\ (lisLog # <<>> /\ Last(lisLog) = Log("ERROR", "Error parsing command output"))
          => /\ lisPc = "select"
             /\ output = Unset
             /\ outOut = <<>>
             /\ ENABLED ReceiveNotice

C27_Witness ==
    /\ mainLog # <<>>
    /\ Last(mainLog) = Log("ERROR", "Error parsing reaction event")
    /\ lisLog # <<>>
    /\ Last(lisLog) = Log("ERROR", "Error parsing command output")
    /\ poppitCommands = <<>>
    /\ slackReactions = <<>>
    /\ nEvents = 1
    /\ nOutputs = 1

FetchOutcomes ==
    {"Error getting message metadata", "No PR metadata found in message", "Found PR metadata"}

Count(seq, Test(_)) == Cardinality({i \in 1..Len(seq) : Test(seq[i])})

IsFetchOutcome(l) == l.msg \in FetchOutcomes
IsGearCall(c) == c.sink = "reactions" /\ c.req.Reaction = "gear" /\ ~c.req.Remove
IsCommandCall(c) == c.sink = "commands"
IsRemoveGearCall(c) == c.sink = "reactions" /\ c.req.Reaction = "gear" /\ c.req.Remove
IsAddRocketCall(c) == c.sink = "reactions" /\ c.req.Reaction = "rocket" /\ ~c.req.Remove

\* C28: within the handling of one reaction event there is at most one outcome of
\* the metadata fetch, at most one publish call of the gear reaction and at most one
\* enqueue call, and no other call; within the handling of one notice at most one
\* remove-gear call and at most one add-rocket call, and no other call; whether or
\* not any of them failed.
C28_NoSecondAttempt ==
    /\ Count(mainLog, IsFetchOutcome) <= 1
    /\ Count(evOut, IsGearCall) <= 1
    /\ Count(evOut, IsCommandCall) <= 1
    /\ Len(evOut) = Count(evOut, IsGearCall) + Count(evOut, IsCommandCall)
    /\ Count(outOut, IsRemoveGearCall) <= 1
    /\ Count(outOut, IsAddRocketCall) <= 1
    /\ Len(outOut) = Count(outOut, IsRemoveGearCall) + Count(outOut, IsAddRocketCall)
    /\ (metadata # Unset /\ metadata.err) => (mainPc = "select" /\ evOut = <<>>)

C28_Witness ==
    /\ mainPc = "select"
    /\ Len(evOut) = 2
    /\ ~evOut[1].ok
    /\ ~evOut[2].ok
    /\ lisPc = "select"
    /\ Len(outOut) = 2
    /\ ~outOut[1].ok
    /\ ~outOut[2].ok
    /\ poppitCommands = <<>>
    /\ slackReactions = <<>>

(***************************************************************************)
(* C23, C25, C26: streams of events.                                       *)
(***************************************************************************)
IsRemoveGear(m) == Has(m, "remove") /\ m.reaction = "gear"
RemovedGearOn(ts) ==
    \E i \in 1..Len(slackReactions) : IsRemoveGear(slackReactions[i]) /\ slackReactions[i].ts = ts
AddedGearOn(ts) ==
    \E i \in 1..Len(slackReactions) :
        slackReactions[i] = [reaction |-> "gear", channel |-> "C1", ts |-> ts]

\* C23: a remove-gear call is never among the calls of the primary loop; it is the
\* first call of the listener for an accepted notice and names the channel and
\* timestamp of that notice.  The reactions channel holds at most one remove-gear
\* mutation per received notice, and none for the timestamp whose completion notice
\* never arrives, however many gear reactions were published for it.
C23_RemoveGearOnlyOnNotice ==
    /\ \A i \in 1..Len(evOut) : evOut[i].sink = "reactions" => ~evOut[i].req.Remove
    /\ \A i \in 1..Len(outOut) :
          outOut[i].req.Remove
              => /\ i = 1
                 /\ output # Unset
                 /\ output.Type = VibeDeployType
                 /\ output.Command = DeploymentCommand
                 /\ outOut[i].req.Channel = output.Metadata.Channel
                 /\ outOut[i].req.Ts = output.Metadata.Ts
    /\ Cardinality({i \in 1..Len(slackReactions) : IsRemoveGear(slackReactions[i])}) <= nOutputs
    /\ \A i \in 1..Len(slackReactions) :
          IsRemoveGear(slackReactions[i])
              => slackReactions[i].channel = "C1" /\ slackReactions[i].ts = StreamNotice.metadata.ts
    /\ ~RemovedGearOn(Timestamps[2])

C23_Witness ==
    /\ AddedGearOn(Timestamps[1])
    /\ AddedGearOn(Timestamps[2])
    /\ RemovedGearOn(Timestamps[1])
    /\ ~RemovedGearOn(Timestamps[2])
    /\ nEvents = MaxStream
    /\ nOutputs = MaxOutputs
    /\ mainPc = "select"
    /\ lisPc = "select"
    /\ Len(outOut) = 2

QueuedFor(ts) ==
    MarshalPoppitCommand(createPoppitCommand(
        [Repository |-> "org/app", Branch |-> "feat/x"], "C1", ts))
GearFor(ts) == [reaction |-> "gear", channel |-> "C1", ts |-> ts]

C25_OneAtATime ==
    /\ mainPc \in {"fetch", "gear", "command"} => item # Unset
    /\ lisPc \in {"removeGear", "addRocket"} => output # Unset
    /\ \A i \in 1..Len(evOut) :
          /\ evOut[i].sink = "reactions" => (evOut[i].req.Ts = item.Ts)
          /\ evOut[i].sink = "commands" => (evOut[i].req.Metadata.Ts = item.Ts)
    /\ \A i \in 1..Len(outOut) : outOut[i].req.Ts = output.Metadata.Ts

C25_Step ==
    /\ nEvents' # nEvents
          => /\ mainPc = "select"
             /\ nEvents' = nEvents + 1
             /\ evOut' = <<>>
             /\ poppitCommands' = poppitCommands
             /\ slackReactions' = slackReactions
    /\ nOutputs' # nOutputs
          => /\ lisPc = "select"
             /\ nOutputs' = nOutputs + 1
             /\ outOut' = <<>>
             /\ poppitCommands' = poppitCommands
             /\ slackReactions' = slackReactions
    /\ poppitCommands' # poppitCommands
          => /\ item' = item
             /\ Len(evOut') = Len(evOut) + 1
             /\ poppitCommands' = Append(poppitCommands, MarshalPoppitCommand(Last(evOut').req))
    /\ slackReactions' # slackReactions
          => \/ /\ item' = item
                /\ Len(evOut') = Len(evOut) + 1
                /\ slackReactions' =
                       Append(slackReactions, MarshalSlackReaction(Last(evOut').req))
             \/ /\ output' = output
                /\ Len(outOut') = Len(outOut) + 1
                /\ slackReactions' =
                       Append(slackReactions, MarshalSlackReaction(Last(outOut').req))

\* C25: each loop takes the next message only at its select, after the handling of
\* the one before has returned; every publish call of a loop is for the message the
\* loop took last, and a published message is appended after the ones already in
\* its channel or queue: the outbound messages of an earlier inbound message precede
\* those of a later one of the same feed, and the commands are queued in the arrival
\* order of their reaction events.
C25_ArrivalOrder == []C25_OneAtATime /\ [][C25_Step]_vars

C25_Witness ==
    /\ nEvents = 2
    /\ item.Ts = Timestamps[1]
    /\ mainPc = "select"
    /\ poppitCommands = <<QueuedFor(Timestamps[2]), QueuedFor(Timestamps[1])>>
    /\ \E i, j \in 1..Len(slackReactions) :
          /\ i < j
          /\ slackReactions[i] = GearFor(Timestamps[2])
          /\ slackReactions[j] = GearFor(Timestamps[1])

SameTarget(c, d) == c.repo = d.repo /\ c.branch = d.branch

C26_Inv ==
    /\ mainPc = "gear" => ENABLED PublishGear(TRUE)
    /\ mainPc = "command" => ENABLED PublishCommand(TRUE)

C26_Step ==
    /\ (mainPc = "fetch" /\ mainPc' # "fetch" /\ ~metadata'.err) => mainPc' = "gear"
    /\ (mainPc = "command" /\ mainPc' = "select" /\ Last(evOut').ok)
          => poppitCommands' = Append(poppitCommands, QueuedFor(item.Ts))

\* C26: what is already in the command queue plays no part in the handling of an
\* accepted event: once its metadata is fetched the gear reaction and the enqueue
\* are enabled, and the enqueue appends the event's own command also when the queue
\* holds a command for the same repository and branch, or the same command.
C26_NoDeduplication == []C26_Inv /\ [][C26_Step]_vars

C26_Witness ==
    /\ Len(poppitCommands) = 2
    /\ poppitCommands[1] = QueuedFor(Timestamps[1])
    /\ poppitCommands[2] = poppitCommands[1]
    /\ nEvents = 2
    /\ mainPc = "select"

C26_WitnessTwoMessages ==
    /\ Len(poppitCommands) = 2
    /\ SameTarget(poppitCommands[1], poppitCommands[2])
    /\ poppitCommands[1].metadata.ts # poppitCommands[2].metadata.ts

(***************************************************************************)
(* C36: self-reaction suppression.                                         *)
(***************************************************************************)
BotRecordOfActingUser(p) ==
    \E i \in 1..Len(WireAuthorizations(p)) :
        WireAuthorizations(p)[i] = [user_id |-> p.event.user, is_bot |-> TRUE]

\* C36: a rocket reaction on a message is suppressed exactly when one authorization
\* record of its payload is flagged is_bot and names the acting user.  A payload
\* whose records naming the acting user are all is_bot=false, whose bot records all
\* name another user, or that has no records, is taken up and goes to the Metadata
\* Resolver.
C36_SuppressionNeedsOneRecord ==
    nEvents >= 1 =>
        IF BotRecordOfActingUser(probe)
        THEN /\ item = Unset
             /\ mainPc = "select"
             /\ Last(mainLog) = Log("INFO", "Ignoring rocket reaction from bot user")
             /\ evOut = <<>>
             /\ poppitCommands = <<>>
        ELSE /\ item # Unset
             /\ mainLog[2] = Log("INFO", "Processing rocket reaction")
             /\ mainPc \in {"fetch", "gear", "command", "select"}
             /\ mainPc = "select" => Len(evOut) = 2

C36_Witness ==
    /\ probe.event.user = "U1"
    /\ Has(probe, "authorizations")
    /\ probe.authorizations = <<[user_id |-> "U1", is_bot |-> FALSE],
                                [user_id |-> "B1", is_bot |-> TRUE]>>
    /\ mainPc = "select"
    /\ metadata # Unset
    /\ Len(poppitCommands) = 1

(***************************************************************************)
(* C34: a failed enqueue after the in-progress marker.                     *)
(***************************************************************************)
EnqueueFailedAfterGear ==
    /\ Len(evOut) >= 2
    /\ evOut[1] = Call("reactions", StartReaction(item), TRUE)
    /\ evOut[2].sink = "commands"
    /\ ~evOut[2].ok

C34_Inv ==
    EnqueueFailedAfterGear
        => /\ mainPc = "select"
           /\ Len(evOut) = 2
           /\ AddedGearOn(item.Ts)
           /\ Last(mainLog) = Log("ERROR", "Error publishing Poppit command")
           /\ item.Ts = Timestamps[2] => ~RemovedGearOn(item.Ts)

C34_Step ==
    (mainPc = "command" /\ mainPc' = "select" /\ ~Last(evOut').ok)
        => /\ poppitCommands' = poppitCommands
           /\ slackReactions' = slackReactions
           /\ evOut' = Append(evOut, Last(evOut'))

\* C34: the enqueue call that fails after the gear reaction was published is the
\* last call for its event: the handler returns, the step changes neither the queue
\* nor the reactions channel, and the primary loop makes no remove call.  The gear
\* mutation stays in the reactions channel, and for a message whose completion
\* notice does not arrive no remove-gear mutation follows it.
C34_NoRollbackOfMarker == []C34_Inv /\ [][C34_Step]_vars

C34_Witness ==
    /\ EnqueueFailedAfterGear
    /\ item.Ts = Timestamps[2]
    /\ slackReactions = <<GearFor(Timestamps[2])>>
    /\ poppitCommands = <<>>
    /\ mainPc = "select"
    /\ lisPc = "select"
    /\ nOutputs = MaxOutputs

(***************************************************************************)
(* C35: the start of the listener's subscription.                          *)
(***************************************************************************)
\* C35 as stated: the listener's subscription to the completion feed is established
\* before the primary loop enqueues its first command.
C35_Original ==
    poppitCommands # <<>> => lisPc \notin {"idle", "subscribe"}

(***************************************************************************)
(* C31: the closed loop with the reactor.                                  *)
(***************************************************************************)
ReceivedEvents == SubSeq(probe.events, 1, nEvents)
UserEventsReceived == Count(ReceivedEvents, LAMBDA p : p.event.user # BotUser)

Quiescent ==
    /\ mainPc = "select"
    /\ lisPc = "select"
    /\ nEvents = Len(probe.events)
    /\ nOutputs = Len(probe.notices)
    /\ probe.applied = Len(slackReactions)
    /\ probe.taken = Len(poppitCommands)

C31_Inv ==
    /\ Len(poppitCommands) <= UserEventsReceived
    /\ (nEvents >= 1 /\ probe.events[nEvents].event.user = BotUser)
          => /\ mainPc = "select"
             /\ item = Unset
             /\ evOut = <<>>
             /\ Last(mainLog) =
                   IF probe.events[nEvents].event.reaction = "rocket"
                   THEN Log("INFO", "Ignoring rocket reaction from bot user")
                   ELSE Log("DEBUG", "Ignoring reaction")

\* C31: every event that comes back from a reaction the reactor added for the
\* bridge is rejected by the Event Filter (the rocket one as a reaction of the bot
\* user), so the queue never holds more commands than reaction events of the user
\* were received; and with every component scheduled, the loop comes to rest: both
\* loops at their select, all feeds, the queue and the reactions channel drained.
C31_NoFeedbackLoop == []C31_Inv /\ <>[]Quiescent

C31_Witness ==
    /\ Quiescent
    /\ probe.reacted = 1
    /\ Len(poppitCommands) = 1
    /\ nOutputs = 1
    /\ nEvents = 3
    /\ probe.events[3] = ReactionAdded(BotUser, "rocket", "C1", Timestamps[1])
    /\ Last(mainLog) = Log("INFO", "Ignoring rocket reaction from bot user")

(***************************************************************************)
(* C32, C33: the in-progress marker of a message in the closed loop.       *)
(***************************************************************************)
GearAdds(ts) == Count(slackReactions, LAMBDA m : m = GearFor(ts))
GearRemoves(ts) == Count(slackReactions, LAMBDA m : IsRemoveGear(m) /\ m.ts = ts)
CommandsFor(ts) == Count(poppitCommands, LAMBDA c : c.metadata.ts = ts)
TakenFor(ts) ==
    Count(SubSeq(poppitCommands, 1, probe.taken), LAMBDA c : c.metadata.ts = ts)
UserEventsFor(ts) ==
    Count(ReceivedEvents, LAMBDA p : p.event.user # BotUser /\ p.event.item.ts = ts)
\* the events for ts whose handling is past the publish call of the gear reaction
GearAttempts(ts) ==
    UserEventsFor(ts)
    - (IF mainPc \in {"fetch", "gear"} /\ item.Ts = ts THEN 1 ELSE 0)
\* the notices for ts whose handling is past the remove-gear call
NoticesProcessed(ts) ==
    Count(SubSeq(probe.notices, 1, nOutputs), LAMBDA n : n.metadata.ts = ts)
    - (IF lisPc = "removeGear" /\ output.Metadata.Ts = ts THEN 1 ELSE 0)
Pending(ts) == CommandsFor(ts) - NoticesProcessed(ts)

\* the reactions channel applied in order leaves the gear reaction on the message
GearPresent(ts) ==
    \E i \in 1..Len(slackReactions) :
        /\ slackReactions[i] = GearFor(ts)
        /\ \A j \in (i + 1)..Len(slackReactions) :
              ~(IsRemoveGear(slackReactions[j]) /\ slackReactions[j].ts = ts)

AddPrecedesRemove(ts) ==
    \A j \in 1..Len(slackReactions) :
        (IsRemoveGear(slackReactions[j]) /\ slackReactions[j].ts = ts)
            => \E i \in 1..(j - 1) : slackReactions[i] = GearFor(ts)

\* two deployments were triggered from one message with the marker published both
\* times, and the completion of the first has been processed
TwoDeploymentsOneCompleted ==
    /\ GearAdds(Timestamps[1]) = 2
    /\ CommandsFor(Timestamps[1]) = 2
    /\ NoticesProcessed(Timestamps[1]) = 1
    /\ ~GearPresent(Timestamps[1])

C33_Original ==
    \A ts \in TsSet : AddPrecedesRemove(ts)

C33_Inv ==
    \A ts \in TsSet :
        /\ GearRemoves(ts) <= TakenFor(ts)
        /\ CommandsFor(ts) <= GearAttempts(ts)
        /\ GearAdds(ts) = GearAttempts(ts) => AddPrecedesRemove(ts)

C33_Step ==
    poppitCommands' # poppitCommands
        => /\ Len(evOut) = 1
           /\ evOut[1].req = StartReaction(item)
           /\ evOut[1].ok => AddedGearOn(item.Ts)

\* C33 (amended): a command is enqueued only after the publish call of the gear
\* reaction for its message has returned, and a remove-gear mutation for a message is
\* pushed only after a command for it was taken from the queue.  The gear-add
\* mutation is in the reactions channel before the removal when that publish call
\* succeeded; when it failed the command is still enqueued and the removal follows
\* with no gear-add mutation before it.
C33_GearAttemptPrecedesRemoval == []C33_Inv /\ [][C33_Step]_vars

C33_Witness ==
    /\ slackReactions = <<GearFor(Timestamps[2]),
                          GearFor(Timestamps[1]),
                          [reaction |-> "gear", channel |-> "C1", ts |-> Timestamps[2],
                           remove |-> TRUE],
                          [reaction |-> "rocket", channel |-> "C1", ts |-> Timestamps[2]]>>
    /\ probe.taken = 1
    /\ Len(poppitCommands) = 2

====
